---------------------------- MODULE Spec2Model ----------------------------
(***************************************************************************)
(* A model of the stock-screener pipeline (Google Sheets + Apps Script):   *)
(* the CAGR engine (calc_metrics/cagr.ts and the legacy Calculations.gs),  *)
(* the upsert engine (utils/upsert.ts, UpsertLogic.gs, Extractor.gs), the  *)
(* per-share builder (per_share/builder.ts, PerShare.gs), the column       *)
(* resolution of the engines and the screener filter (Screener.gs).        *)
(*                                                                         *)
(* Numbers are integers in units of 0.01 (hundredths), so that the floor   *)
(* value 0.01 of the turnaround rule is the integer 1.  A JavaScript value *)
(* that is a number or null is the record [t, v]: t = "num" with the       *)
(* number in v, or t = "null".  A sheet cell read by getValues() is such a *)
(* record too, with t = "blank" for the empty string and t = "text" for a  *)
(* string that Number() turns into NaN (such as 'N/A').                    *)
(***************************************************************************)
EXTENDS Integers, Sequences, FiniteSets, TLC

VARIABLES
  perShare,    \* Per_Share rows of one ticker, ascending by fiscal year
  column,      \* the metric column whose cells vary in this run
  ran,         \* which engine has run: "none", "computeCAGRs", "computeCAGRs_"
  metrics      \* the record the engine emitted for the ticker ("none" before)

cagrVars == <<perShare, column, ran, metrics>>

VARIABLES
  longSheet,   \* Raw_Fundamentals_Annual: the grid of cells, row 1 the header
  keyMap,      \* existingKeys / existing: composite key -> sheet row number
  longImpl,    \* "upsertLongTable" (upsert.ts) or "_upsertLong_" (Extractor.gs)
  longBefore,  \* the sheet before the last upsert call
  longBatch,   \* the rows of the last upsert call
  fetched      \* rows fetched from the fundamentals source so far

longVars == <<longSheet, keyMap, longImpl, longBefore, longBatch, fetched>>

VARIABLES
  cmSheet,     \* Calculated_Metrics: the grid of cells
  cmPrev,      \* the sheet before the last upsert call
  cmCall,      \* the last upsert call: its function, columnsToWrite and batch
  cmApplied    \* how many times the batch of cmCall has been applied (0..2)

cmVars == <<cmSheet, cmPrev, cmCall, cmApplied>>

VARIABLES
  psFacts,     \* the ticker's annual facts in the long table, in stored order
  psRan,       \* which builder has run: "none", "buildPerShareFull", "buildPerShare_Full"
  psOut        \* the Per_Share data rows the builder wrote

psVars == <<psFacts, psRan, psOut>>

VARIABLES
  rcHeader,    \* row 1 of the Per_Share sheet the CAGR engine reads
  rcRan,       \* which engine has read it: "none", "computeCAGRs", "computeCAGRs_"
  rcCols,      \* what the column resolution returned or threw
  rcEmitted,   \* the tickers the engine emitted a Calculated_Metrics row for
  rcSheets     \* the sheets of the spreadsheet that exist, by name

rcVars == <<rcHeader, rcRan, rcCols, rcEmitted, rcSheets>>

VARIABLES
  scHeader,    \* row 1 of the Calculated_Metrics sheet the screener reads
  scRows,      \* its data rows, one per ticker
  scFilter,    \* the cells C4, C5 and C6 of the Screener sheet
  scRan,       \* which screener has run: "none", "buildClassicScreener_"
  scOut        \* the data rows the screener wrote from row 11 down

scVars == <<scHeader, scRows, scFilter, scRan, scOut>>

VARIABLES
  rnValue,     \* the value handed to a rounding function of utils/format.ts
  rnDecimals,  \* the number of decimals it rounds to
  rnFn,        \* which function was called: "none", "round3", "round4", "roundN"
  rnOut        \* what it returned

rnVars == <<rnValue, rnDecimals, rnFn, rnOut>>

vars == <<cagrVars, longVars, cmVars, psVars, rcVars, scVars, rnVars>>

-----------------------------------------------------------------------------
(* Bounds of the model *)

\* Fiscal years of Per_Share data of the ticker (the 10Y window needs 11).
MaxYears == 11
\* Cells of the varied column that are not the plain positive value.
MaxSpecial == 1
\* Rows of one upsertLongTable batch.
MaxBatchRows == 3
\* Rows fetched over all batches of a behaviour.
MaxFetched == 5
\* Row objects of one upsertByKey batch.
MaxObjects == 2
\* Fiscal years of raw facts the ticker gets on top of its earlier history.
MaxFactYears == 2
\* Fiscal years whose facts are not the plain ones.
MaxOddYears == 1
\* Fiscal years of the earlier history of a ticker that has one.
MaxPlainYears == 10
\* Columns of a Per_Share header after those of its base header.
MaxExtraColumns == 2
\* Per_Share rows of the ticker whose order in the sheet is varied freely.
OrderYears == 6
\* Largest numerator, in 32nds, of a value handed to a rounding function.
MaxNumerator == 16
\* Largest number of decimals roundN is asked for.
MaxDecimals == 4

-----------------------------------------------------------------------------
(* JavaScript values and sheet cells *)

NULL == [t |-> "null", v |-> 0]
Num(n) == [t |-> "num", v |-> n]
Blank == [t |-> "blank", v |-> 0]
Text == [t |-> "text", v |-> 0]

\* The text 'Infinity' in a cell.
InfText == [t |-> "inftext", v |-> 0]

IsNull(x) == x.t = "null"
IsNum(x) == x.t = "num"

\* globals.ts CAGR_CONFIG
FLOOR_VALUE == 1
MIN_ROWS_5Y == 6
MIN_ROWS_9Y == 10
MIN_ROWS_10Y == 11
METRICS == <<"OpPS", "EPS", "FCFPS">>

\* The cells a Per_Share metric column holds in the model: blank, text, the
\* text 'Infinity', -2.00, 0, exactly 0.01, and the plain positive 3.00.
Plain == Num(300)
SpecialCells == {Blank, Text, InfText, Num(-200), Num(0), Num(1)}

-----------------------------------------------------------------------------
(* utils/format.ts *)

\* toNum: null, undefined and '' give null; otherwise Number(v) if finite.
toNum(v) == IF v.t = "num" THEN v ELSE NULL

\* floor01 with null turned into the floor value (the coercion of Number(null)).
floor01_NullAsZero(v) ==
  IF v.t = "num" /\ v.v > 0 THEN v ELSE Num(FLOOR_VALUE)

\* floor01 without its floor: n <= 0 is returned as it is.
floor01_NoFloor(v) == toNum(v)

\* floor01: null stays null, n <= 0 becomes 0.01, n > 0 is unchanged.
floor01(v) ==
  LET n == toNum(v)
  IN  IF IsNull(n) THEN NULL
      ELSE IF n.v <= 0 THEN Num(FLOOR_VALUE) ELSE n

\* round4(Math.pow(endAdj / startAdj, 1 / years) - 1) as a term over its
\* operands: the number is irrational in general and is kept symbolic.
round4Pow(endAdj, startAdj, years) ==
  [t |-> "num", v |-> <<endAdj.v, startAdj.v, years>>]

-----------------------------------------------------------------------------
(* Calculations.gs helpers (legacy) *)

\* Number(v) of the legacy helpers: '' and null give 0, text gives NaN (and
\* the text 'Infinity' Infinity, which is not finite either).
NumberOf(v) ==
  CASE v.t = "num" -> v
    [] v.t = "blank" -> Num(0)
    [] v.t = "null" -> Num(0)
    [] OTHER -> [t |-> "nan", v |-> 0]

toNum_(v) == IF NumberOf(v).t = "num" THEN NumberOf(v) ELSE NULL
isFiniteNum_(v) == NumberOf(v).t = "num"
floor01_(v) ==
  IF NumberOf(v).t # "num" THEN NULL
  ELSE IF NumberOf(v).v <= 0 THEN Num(FLOOR_VALUE) ELSE NumberOf(v)

\* The JavaScript comparison v <= 0 on a number or null: null converts to 0.
JsLeqZero(v) == IF v.t = "num" THEN v.v <= 0 ELSE v.t = "null"
\* The JavaScript comparison v != null.
JsNotNull(v) == v.t # "null"

-----------------------------------------------------------------------------
(* calc_metrics/cagr.ts *)

\* indexByTicker: one YearRecord per Per_Share row of the ticker.
YearRecord(row) ==
  [fy |-> row.fy, OpPS |-> toNum(row.OpPS), EPS |-> toNum(row.EPS),
   FCFPS |-> toNum(row.FCFPS)]

\* The series left in the order of the sheet rows.
sortByFy_SheetOrder(series) == series

\* series.sort((a, b) => a.fy - b.fy): ascending by fiscal year, records of
\* one fiscal year staying in the order they had (the sort is stable).
RECURSIVE sortByFy(_)
sortByFy(series) ==
  IF Len(series) = 0 THEN <<>>
  ELSE LET sorted == sortByFy(SubSeq(series, 1, Len(series) - 1))
           rec == series[Len(series)]
           k == Cardinality({i \in 1..Len(sorted) : sorted[i].fy <= rec.fy})
       IN  SubSeq(sorted, 1, k) \o <<rec>> \o SubSeq(sorted, k + 1, Len(sorted))

indexByTicker(rows) == sortByFy([i \in 1..Len(rows) |-> YearRecord(rows[i])])

\* One window of calculateMetricCAGRs: the CAGR and its adjusted component.
\* series is 1-based here: lastIdx of the code is Len(series) - 1.
WindowCAGR(series, metricName, years, minRows) ==
  IF Len(series) >= minRows
  THEN LET endRaw == series[Len(series)][metricName]
           startRaw == series[Len(series) - years][metricName]
           endAdj == floor01(endRaw)
           startAdj == floor01(startRaw)
       IN  [cagr |-> IF ~IsNull(endAdj) /\ ~IsNull(startAdj) /\ startAdj.v > 0
                     THEN round4Pow(endAdj, startAdj, years) ELSE NULL,
            adj |-> (~IsNull(endRaw) /\ endRaw.v <= 0)
                    \/ (~IsNull(startRaw) /\ startRaw.v <= 0),
            evaluated |-> ~IsNull(endAdj) /\ ~IsNull(startAdj) /\ startAdj.v > 0,
            endAdj |-> endAdj, startAdj |-> startAdj]
  ELSE [cagr |-> NULL, adj |-> FALSE, evaluated |-> FALSE,
        endAdj |-> NULL, startAdj |-> NULL]

calculateMetricCAGRs(series, metricName) ==
  LET latestRaw == series[Len(series)][metricName]
      latestAdj == floor01(latestRaw)
      latestWasAdjusted == ~IsNull(latestRaw) /\ latestRaw.v <= 0
      w5 == WindowCAGR(series, metricName, 5, MIN_ROWS_5Y)
      w9 == WindowCAGR(series, metricName, 9, MIN_ROWS_9Y)
      w10 == WindowCAGR(series, metricName, 10, MIN_ROWS_10Y)
  IN  [latest |-> latestAdj,
       cagr5Y |-> w5.cagr, cagr9Y |-> w9.cagr, cagr10Y |-> w10.cagr,
       adjustedFlag |-> latestWasAdjusted \/ w5.adj \/ w9.adj \/ w10.adj,
       adj5Y |-> w5.adj, adj9Y |-> w9.adj, adj10Y |-> w10.adj,
       windows |-> <<w5, w9, w10>>,
       raw |-> [i \in 1..Len(series) |-> series[i][metricName]]]

calculateTickerMetrics(series) ==
  [m \in {METRICS[i] : i \in 1..Len(METRICS)} |-> calculateMetricCAGRs(series, m)]

-----------------------------------------------------------------------------
(* Calculations.gs computeCAGRs_ (legacy) *)

\* The record computeCAGRs_ builds per Per_Share row.
LegacyRecord(row) ==
  [fy |-> row.fy, OpPS |-> toNum_(row.OpPS), EPS |-> toNum_(row.EPS),
   FCFPS |-> toNum_(row.FCFPS)]

LegacyByTicker(rows) == sortByFy([i \in 1..Len(rows) |-> LegacyRecord(rows[i])])

LegacyWindow(arr, m, years, minRows) ==
  IF Len(arr) >= minRows
  THEN LET end == arr[Len(arr)][m]
           start == arr[Len(arr) - years][m]
           e == floor01_(end)
           s == floor01_(start)
           ok == isFiniteNum_(e) /\ isFiniteNum_(s) /\ JsLeqZero(s) = FALSE
       IN  [cagr |-> IF ok THEN round4Pow(e, s, years) ELSE NULL,
            adj |-> (JsNotNull(toNum_(end)) /\ JsLeqZero(end))
                    \/ (JsNotNull(toNum_(start)) /\ JsLeqZero(start)),
            evaluated |-> ok, endAdj |-> e, startAdj |-> s]
  ELSE [cagr |-> NULL, adj |-> FALSE, evaluated |-> FALSE,
        endAdj |-> NULL, startAdj |-> NULL]

LegacyMetric(arr, m) ==
  LET latestRaw == toNum_(arr[Len(arr)][m])
      latestAdj == floor01_(latestRaw)
      latestWasAdj == JsNotNull(latestRaw) /\ latestRaw.v <= 0
      w5 == LegacyWindow(arr, m, 5, 6)
      w9 == LegacyWindow(arr, m, 9, 10)
      w10 == LegacyWindow(arr, m, 10, 11)
  IN  [latest |-> latestAdj,
       cagr5Y |-> w5.cagr, cagr9Y |-> w9.cagr, cagr10Y |-> w10.cagr,
       adjustedFlag |-> latestWasAdj \/ w5.adj \/ w9.adj \/ w10.adj,
       adj5Y |-> w5.adj, adj9Y |-> w9.adj, adj10Y |-> w10.adj,
       windows |-> <<w5, w9, w10>>,
       raw |-> [i \in 1..Len(arr) |-> arr[i][m]]]

LegacyTickerMetrics(arr) ==
  [m \in {METRICS[i] : i \in 1..Len(METRICS)} |-> LegacyMetric(arr, m)]

-----------------------------------------------------------------------------
(* The CAGR engine run on the Per_Share rows of one ticker *)

MetricNames == {METRICS[i] : i \in 1..Len(METRICS)}

PerShareRow(fy, col, cell) ==
  [fy |-> fy,
   OpPS |-> IF col = "OpPS" THEN cell ELSE Plain,
   EPS |-> IF col = "EPS" THEN cell ELSE Plain,
   FCFPS |-> IF col = "FCFPS" THEN cell ELSE Plain]

Specials(rows) == Cardinality({i \in 1..Len(rows) : rows[i][column] # Plain})

NoCall == [kind |-> "none", cols |-> <<>>, batch |-> <<>>]

PsIdle ==
  /\ psFacts = <<>> /\ psRan = "none" /\ psOut = <<>>

RcIdle ==
  /\ rcHeader = <<>> /\ rcRan = "none" /\ rcCols = <<>> /\ rcEmitted = {}
  /\ rcSheets = {}

NoFilter == [min5 |-> Blank, maxDE |-> Blank, minLong |-> Blank]

RnIdle ==
  /\ rnValue = NULL /\ rnDecimals = 0 /\ rnFn = "none" /\ rnOut = NULL

ScIdle ==
  /\ scHeader = <<>> /\ scRows = <<>> /\ scFilter = NoFilter
  /\ scRan = "none" /\ scOut = <<>>

CmIdle ==
  /\ cmSheet = <<>> /\ cmPrev = <<>> /\ cmCall = NoCall /\ cmApplied = 0

LongIdle ==
  /\ longSheet = <<>> /\ keyMap = <<>> /\ longImpl = "none"
  /\ longBefore = <<>> /\ longBatch = <<>> /\ fetched = 0

CagrInit ==
  /\ RcIdle
  /\ ScIdle
  /\ RnIdle
  /\ LongIdle
  /\ CmIdle
  /\ PsIdle
  /\ perShare = <<>>
  /\ column \in MetricNames
  /\ ran = "none"
  /\ metrics = "none"

\* The per-share builder writes one more fiscal year of the ticker.
AppendYear ==
  /\ ran = "none"
  /\ Len(perShare) < MaxYears
  /\ \E cell \in SpecialCells \cup {Plain} :
       /\ cell # Plain => Specials(perShare) < MaxSpecial
       /\ perShare' = Append(perShare, PerShareRow(2000 + Len(perShare), column, cell))
  /\ UNCHANGED <<column, ran, metrics, longVars, cmVars, psVars, rcVars, scVars, rnVars>>

\* computeCAGRs (calc_metrics/cagr.ts) on the ticker's rows.
ComputeCAGRs ==
  /\ ran = "none"
  /\ Len(perShare) > 0
  /\ metrics' = calculateTickerMetrics(indexByTicker(perShare))
  /\ ran' = "computeCAGRs"
  /\ UNCHANGED <<perShare, column, longVars, cmVars, psVars, rcVars, scVars, rnVars>>

\* computeCAGRs_ (Calculations.gs) on the ticker's rows.
ComputeCAGRsLegacy ==
  /\ ran = "none"
  /\ Len(perShare) > 0
  /\ metrics' = LegacyTickerMetrics(LegacyByTicker(perShare))
  /\ ran' = "computeCAGRs_"
  /\ UNCHANGED <<perShare, column, longVars, cmVars, psVars, rcVars, scVars, rnVars>>

CagrNext == AppendYear \/ ComputeCAGRs \/ ComputeCAGRsLegacy

SpecCAGR == CagrInit /\ [][CagrNext]_vars

-----------------------------------------------------------------------------
(* Sheets.  A sheet is the sequence of its rows up to getLastRow(), each a  *)
(* sequence of cells up to getLastColumn(); a cell is a string, '' when     *)
(* empty.  A cell holding the number n is the string "#n".                  *)

Max(a, b) == IF a >= b THEN a ELSE b
SetMax(S) == IF S = {} THEN 0 ELSE CHOOSE x \in S : \A y \in S : y <= x

BlankRow(w) == [j \in 1..w |-> ""]
CellAt(grid, i, j) ==
  IF i <= Len(grid) /\ j <= Len(grid[i]) THEN grid[i][j] ELSE ""

\* Sheet.getLastRow() / getLastColumn(): the last row / column with content.
getLastRow(grid) ==
  SetMax({i \in 1..Len(grid) : \E j \in 1..Len(grid[i]) : grid[i][j] # ""})
getLastColumn(grid) ==
  SetMax({j \in 1..SetMax({Len(grid[i]) : i \in 1..Len(grid)}) :
            \E i \in 1..Len(grid) : CellAt(grid, i, j) # ""})

\* The sheet a grid of cells amounts to: rectangular, up to the last row and
\* column with content.
Canon(grid) ==
  [i \in 1..getLastRow(grid) |->
     [j \in 1..getLastColumn(grid) |-> CellAt(grid, i, j)]]

\* sheet.getRange(row, 1, Len(values), width).setValues(values)
setValues(sheet, row, values) ==
  LET n == Max(Len(sheet), row + Len(values) - 1)
      written(i) == i >= row /\ i < row + Len(values)
      old(i) == IF i <= Len(sheet) THEN sheet[i] ELSE <<>>
      new(i) == LET v == values[i - row + 1]
                IN  [j \in 1..Max(Len(v), Len(old(i))) |->
                       IF j <= Len(v) THEN v[j] ELSE old(i)[j]]
  IN  Canon([i \in 1..n |-> IF written(i) THEN new(i) ELSE old(i)])

\* null and undefined as values of an object property.
JsNull == "<null>"
JsUndefined == "<undefined>"

\* String(v): the number 0 prints as '0', a string is itself.
JsString(v) == IF v = "#0" THEN "0" ELSE v
\* v || '': the empty string, the number 0, null and undefined are falsy.
OrEmpty(v) == IF v \in {"", "#0", JsNull, JsUndefined} THEN "" ELSE v
\* s.trim() on the strings of the model ("MSFT " is the one padded string).
trim(s) == IF s = "MSFT " THEN "MSFT" ELSE s
\* nullToEmpty (utils/format.ts); also what setValues stores for a null.
nullToEmpty(v) == IF v = JsNull \/ v = JsUndefined THEN "" ELSE v
\* obj[name]
getProp(obj, name) == IF name \in DOMAIN obj THEN obj[name] ELSE JsUndefined

\* parts.join('¦'); "|" stands for the separator character.
RECURSIVE join(_)
join(parts) ==
  IF Len(parts) = 0 THEN ""
  ELSE IF Len(parts) = 1 THEN parts[1]
  ELSE parts[1] \o "|" \o join(Tail(parts))

\* buildHeaderIndex / _headerIndex_: the position of a column name (the last
\* one of that name), 0 when the header lacks it.
buildHeaderIndex(header, name) ==
  SetMax({j \in 1..Len(header) : header[j] = name})

-----------------------------------------------------------------------------
(* The long-table upsert: upsertLongTable and buildKeyMap of utils/upsert.ts,*)
(* _upsertLong_ and _readSheetMapByKey_ of Extractor.gs.  A key map is a    *)
(* function from composite keys to sheet row numbers.                       *)

ANNUAL_HEADERS ==
  <<"Ticker", "Date", "FiscalYear", "Section", "Field", "Value", "Source">>
keyColumns == <<"Ticker", "Date", "Section", "Field">>

EmptyMap == [k \in {} |-> 0]
MapSet(map, k, v) == (k :> v) @@ map

keyIndicesOf(headers, keyCols) ==
  [c \in 1..Len(keyCols) |-> buildHeaderIndex(headers, keyCols[c])]

\* upsertLongTable / buildKeyMap: keyIndices.map(idx => String(row[idx] || ''))
\* joined by the separator.
compositeKey(row, keyIndices) ==
  join([c \in 1..Len(keyIndices) |-> JsString(OrEmpty(row[keyIndices[c]]))])

\* _upsertLong_ / _readSheetMapByKey_: keyIdx.map(i => String(r[i])) joined.
legacyKey(row, keyIdx) ==
  join([c \in 1..Len(keyIdx) |-> JsString(row[keyIdx[c]])])

\* The write loop over the updates object, in ascending row number.
RECURSIVE executeUpdates(_, _)
executeUpdates(sheet, updates) ==
  IF DOMAIN updates = {} THEN sheet
  ELSE LET rowNum == CHOOSE r \in DOMAIN updates :
                       \A q \in DOMAIN updates : r <= q
       IN  executeUpdates(setValues(sheet, rowNum, <<updates[rowNum]>>),
                          [r \in DOMAIN updates \ {rowNum} |-> updates[r]])

\* The appends, written below the last row the sheet has at that moment.
executeAppends(sheet, appends) ==
  IF Len(appends) > 0 THEN setValues(sheet, getLastRow(sheet) + 1, appends)
  ELSE sheet

\* The classification loop of upsertLongTable over newRows[i..]: a row whose
\* key is in the map becomes an update of that row number, any other row is
\* appended and its key is mapped to getLastRow() + appends.length.
RECURSIVE classifyLong(_, _, _, _, _, _, _)
classifyLong(sheet, newRows, i, keyIndices, map, updates, appends) ==
  IF i > Len(newRows) THEN [map |-> map, updates |-> updates, appends |-> appends]
  ELSE LET row == newRows[i]
           key == compositeKey(row, keyIndices)
       IN  IF key \in DOMAIN map
           THEN classifyLong(sheet, newRows, i + 1, keyIndices, map,
                             MapSet(updates, map[key], row), appends)
           ELSE classifyLong(sheet, newRows, i + 1, keyIndices,
                             MapSet(map, key, getLastRow(sheet) + Len(appends) + 1),
                             updates, Append(appends, row))

\* upsertLongTable: the sheet and the (mutated) key map after the call.
upsertLongTable(sheet, existingKeyMap, headers, newRows, keyCols) ==
  IF Len(newRows) = 0 THEN [sheet |-> sheet, map |-> existingKeyMap]
  ELSE LET c == classifyLong(sheet, newRows, 1, keyIndicesOf(headers, keyCols),
                             existingKeyMap, EmptyMap, <<>>)
       IN  [sheet |-> executeAppends(executeUpdates(sheet, c.updates), c.appends),
            map |-> c.map]

\* The loop of buildKeyMap with a test that keeps the first row of a key.
RECURSIVE buildKeyMapFrom_FirstWins(_, _, _, _)
buildKeyMapFrom_FirstWins(values, i, keyIndices, map) ==
  IF i > Len(values) THEN map
  ELSE LET row == values[i]
           parts == [c \in 1..Len(keyIndices) |-> JsString(OrEmpty(row[keyIndices[c]]))]
       IN  buildKeyMapFrom_FirstWins(values, i + 1, keyIndices,
             IF (\E c \in 1..Len(parts) : parts[c] # "") /\ join(parts) \notin DOMAIN map
             THEN MapSet(map, join(parts), i) ELSE map)

\* buildKeyMap over the data rows i.. of the sheet: the last row of a key wins;
\* a row whose key parts are all empty is left out.
RECURSIVE buildKeyMapFrom(_, _, _, _)
buildKeyMapFrom(values, i, keyIndices, map) ==
  IF i > Len(values) THEN map
  ELSE LET row == values[i]
           parts == [c \in 1..Len(keyIndices) |-> JsString(OrEmpty(row[keyIndices[c]]))]
       IN  buildKeyMapFrom(values, i + 1, keyIndices,
             IF \E c \in 1..Len(parts) : parts[c] # ""
             THEN MapSet(map, join(parts), i) ELSE map)

buildKeyMap(sheet, keyCols) ==
  IF getLastRow(sheet) < 2 THEN EmptyMap
  ELSE LET keyIndices == keyIndicesOf(sheet[1], keyCols)
       IN  IF \E c \in 1..Len(keyIndices) : keyIndices[c] = 0 THEN EmptyMap
           ELSE buildKeyMapFrom(sheet, 2, keyIndices, EmptyMap)

\* The classification loop of _upsertLong_: a key found in the map is an
\* update, any other row is appended; the map is not touched.
RECURSIVE classifyLegacy(_, _, _, _, _, _)
classifyLegacy(rows, i, keyIdx, map, updatesByRow, appendRows) ==
  IF i > Len(rows) THEN [updates |-> updatesByRow, appends |-> appendRows]
  ELSE LET r == rows[i]
           key == legacyKey(r, keyIdx)
       IN  IF key \in DOMAIN map
           THEN classifyLegacy(rows, i + 1, keyIdx, map,
                               MapSet(updatesByRow, map[key], r), appendRows)
           ELSE classifyLegacy(rows, i + 1, keyIdx, map,
                               updatesByRow, Append(appendRows, r))

_upsertLong_(sheet, existingMap, headers, rows, keyCols) ==
  IF Len(rows) = 0 THEN sheet
  ELSE LET c == classifyLegacy(rows, 1, keyIndicesOf(headers, keyCols),
                               existingMap, EmptyMap, <<>>)
       IN  executeAppends(executeUpdates(sheet, c.updates), c.appends)

\* _readSheetMapByKey_: every data row is mapped, the last row of a key wins.
RECURSIVE readSheetMapFrom(_, _, _, _)
readSheetMapFrom(sheet, i, keyIdx, map) ==
  IF i > Len(sheet) THEN map
  ELSE readSheetMapFrom(sheet, i + 1, keyIdx,
                        MapSet(map, legacyKey(sheet[i], keyIdx), i))

_readSheetMapByKey_(sheet, keyCols) ==
  LET headers == IF Len(sheet) = 0 THEN <<"">> ELSE sheet[1]
      keyIdx == keyIndicesOf(headers, keyCols)
  IN  IF \E c \in 1..Len(keyIdx) : keyIdx[c] = 0 THEN EmptyMap
      ELSE IF getLastRow(sheet) < 2 THEN EmptyMap
      ELSE readSheetMapFrom(sheet, 2, keyIdx, EmptyMap)

\* ensureHeaders (utils/sheets.ts) and _ensureHeaders_ (Extractor.gs): a sheet
\* whose first cells are not the expected header is cleared and gets it.
ensureHeaders(sheet, headers) ==
  LET existing == [j \in 1..Len(headers) |-> CellAt(sheet, 1, j)]
  IN  IF existing # headers THEN setValues(<<>>, 1, <<headers>>) ELSE sheet

-----------------------------------------------------------------------------
(* The extraction run over Raw_Fundamentals_Annual *)

Digits == <<"0", "1", "2", "3", "4", "5", "6", "7", "8", "9">>
RECURSIVE DecStr(_)
DecStr(n) ==
  IF n < 10 THEN Digits[n + 1] ELSE DecStr(n \div 10) \o Digits[(n % 10) + 1]

\* The fields the Control Center asks for.
Fields == {"totalRevenue", "netIncome"}

\* The row extractFieldsFromJSON / _extractAnnualForTickers_ pushes for one
\* field of one yearly period; the n-th fetched row carries the value 100 + n.
FactRow(field, n) ==
  <<"ALI", "2023-12-31", "2023", "Income_Statement", field, DecStr(100 + n), "EODHD">>

\* The sheet before the first run: new, with a header of an older layout,
\* with the header only, or with one row of an earlier extraction.
\* A row of an earlier extraction for the same fiscal year, when the source
\* reported the period under another date.
EarlierDateRow(field) ==
  <<"ALI", "2023-06-30", "2023", "Income_Statement", field, "100", "EODHD">>

InitialLongSheets ==
  {<<>>, <<<<"Ticker", "Date", "Field", "Value">>>>, <<ANNUAL_HEADERS>>,
   <<ANNUAL_HEADERS, EarlierDateRow("totalRevenue")>>}
    \cup {<<ANNUAL_HEADERS, FactRow(f, 0)>> : f \in Fields}

CagrIdle ==
  /\ perShare = <<>> /\ column = "OpPS" /\ ran = "none" /\ metrics = "none"

LongInit ==
  /\ RcIdle
  /\ ScIdle
  /\ RnIdle
  /\ CagrIdle
  /\ CmIdle
  /\ PsIdle
  /\ longSheet \in InitialLongSheets
  /\ keyMap = EmptyMap
  /\ longImpl = "none"
  /\ longBefore = <<>>
  /\ longBatch = <<>>
  /\ fetched = 0

\* extractFundamentalsForPeriod up to its batch loop: ensureSheetWithHeaders,
\* then buildKeyMap.
StartExtract ==
  /\ longSheet' = ensureHeaders(longSheet, ANNUAL_HEADERS)
  /\ keyMap' = buildKeyMap(longSheet', keyColumns)
  /\ longImpl' = "upsertLongTable"
  /\ UNCHANGED <<longBefore, longBatch, fetched, cagrVars, cmVars, psVars, rcVars, scVars, rnVars>>

\* _extractAnnualForTickers_ up to its batch loop: _ensureSheetWithHeaders_,
\* then _readSheetMapByKey_.
StartExtractLegacy ==
  /\ longSheet' = ensureHeaders(longSheet, ANNUAL_HEADERS)
  /\ keyMap' = _readSheetMapByKey_(longSheet', keyColumns)
  /\ longImpl' = "_upsertLong_"
  /\ UNCHANGED <<longBefore, longBatch, fetched, cagrVars, cmVars, psVars, rcVars, scVars, rnVars>>

BatchRows(fs) == [i \in 1..Len(fs) |-> FactRow(fs[i], fetched + i)]

\* One batch of extractFundamentalsForPeriod: the rows of the batch go
\* through upsertLongTable with the run's key map.
UpsertBatch ==
  /\ longImpl = "upsertLongTable"
  /\ \E n \in 1..MaxBatchRows :
       /\ fetched + n <= MaxFetched
       /\ \E fs \in [1..n -> Fields] :
            LET r == upsertLongTable(longSheet, keyMap, ANNUAL_HEADERS,
                                     BatchRows(fs), keyColumns)
            IN  /\ longSheet' = r.sheet
                /\ keyMap' = r.map
                /\ longBatch' = BatchRows(fs)
                /\ fetched' = fetched + n
  /\ longBefore' = longSheet
  /\ UNCHANGED <<longImpl, cagrVars, cmVars, psVars, rcVars, scVars, rnVars>>

\* One batch of _extractAnnualForTickers_, through _upsertLong_.
UpsertBatchLegacy ==
  /\ longImpl = "_upsertLong_"
  /\ \E n \in 1..MaxBatchRows :
       /\ fetched + n <= MaxFetched
       /\ \E fs \in [1..n -> Fields] :
            /\ longSheet' = _upsertLong_(longSheet, keyMap, ANNUAL_HEADERS,
                                         BatchRows(fs), keyColumns)
            /\ longBatch' = BatchRows(fs)
            /\ fetched' = fetched + n
  /\ longBefore' = longSheet
  /\ UNCHANGED <<keyMap, longImpl, cagrVars, cmVars, psVars, rcVars, scVars, rnVars>>

LongNext == StartExtract \/ StartExtractLegacy \/ UpsertBatch \/ UpsertBatchLegacy

SpecLong == LongInit /\ [][LongNext]_vars

\* C28: when the run's key index is empty (buildKeyMap found no data rows, or
\* a key column missing from the header), the upsertLongTable call that
\* follows appends every incoming row: the sheet keeps its rows and gains one
\* row per row of the batch, each holding that row.
C28_EmptyIndexAppendsEveryRow ==
  [][(longImpl = "upsertLongTable" /\ keyMap = EmptyMap /\ fetched' > fetched)
       => /\ Len(longSheet') = Len(longSheet) + Len(longBatch')
          /\ \A n \in 1..Len(longSheet) : longSheet'[n] = longSheet[n]
          /\ \A i \in 1..Len(longBatch') :
               \E n \in (Len(longSheet) + 1)..Len(longSheet') :
                 longSheet'[n] = longBatch'[i]]_vars

\* Rows of the long table whose key cells hold an empty cell, the number 0
\* or the separator character ("|" stands for it, as in join).
KeyRows ==
  {<<"ALI", date, "2023", section, field, "100", "EODHD">> :
     date \in {"2023-12-31", "", "#0"},
     section \in {"Income_Statement", "Income_Statement|totalRevenue"},
     field \in {"totalRevenue", "x", "totalRevenue|x"}}

\* A sheet that holds two such rows under the header, before a run builds
\* its key index.
KeysInit ==
  /\ RcIdle
  /\ ScIdle
  /\ RnIdle
  /\ CagrIdle
  /\ CmIdle
  /\ PsIdle
  /\ longSheet \in {<<ANNUAL_HEADERS, r1, r2>> : r1 \in KeyRows, r2 \in KeyRows}
  /\ keyMap = EmptyMap
  /\ longImpl = "none"
  /\ longBefore = <<>>
  /\ longBatch = <<>>
  /\ fetched = 0

SpecKeys == KeysInit /\ [][StartExtract \/ StartExtractLegacy]_vars

-----------------------------------------------------------------------------
(* The single-key upsert: upsertByKey (utils/upsert.ts).  A row object is a *)
(* function from its own property names to values.                          *)

Range(seq) == {seq[i] : i \in 1..Len(seq)}
padTo(row, n) == IF Len(row) < n THEN row \o BlankRow(n - Len(row)) ELSE row

\* The header after header.push(col) for every column the index lacks.
RECURSIVE pushMissing(_, _, _)
pushMissing(header, cols, i) ==
  IF i > Len(cols) THEN header
  ELSE pushMissing(IF buildHeaderIndex(header, cols[i]) = 0
                   THEN Append(header, cols[i]) ELSE header, cols, i + 1)

\* The key-to-row map over data rows i.. (row 1 is taken for the header).
RECURSIVE rowByKeyFrom(_, _, _, _)
rowByKeyFrom(data, i, keyColIdx, map) ==
  IF i > Len(data) THEN map
  ELSE LET key == trim(JsString(OrEmpty(data[i][keyColIdx])))
       IN  rowByKeyFrom(data, i + 1, keyColIdx,
                        IF key # "" THEN MapSet(map, key, i) ELSE map)

\* A variant of the update loop that writes every column of columnsToWrite,
\* whether or not the object carries it.
writeColumns_NoOwnCheck(row, obj, cols, header) ==
  [j \in 1..Len(row) |->
     IF \E c \in 1..Len(cols) : buildHeaderIndex(header, cols[c]) = j
     THEN nullToEmpty(getProp(obj, header[j]))
     ELSE row[j]]

\* The update loop of one object: each column of columnsToWrite that the
\* header has and the object carries as own property gets nullToEmpty(obj[col]).
writeColumns(row, obj, cols, header) ==
  [j \in 1..Len(row) |->
     IF \E c \in 1..Len(cols) :
          buildHeaderIndex(header, cols[c]) = j /\ cols[c] \in DOMAIN obj
     THEN nullToEmpty(getProp(obj, header[j]))
     ELSE row[j]]

\* The loop over incomingObjects[i..]: an object with an empty key is
\* skipped; an unknown key gets a new row at the end of data.
RECURSIVE processIncoming(_, _, _, _, _, _, _)
processIncoming(data, rowByKey, objs, i, keyColumn, cols, header) ==
  IF i > Len(objs) THEN data
  ELSE LET obj == objs[i]
           key == trim(JsString(OrEmpty(getProp(obj, keyColumn))))
           keyColIdx == buildHeaderIndex(header, keyColumn)
           isNew == key \notin DOMAIN rowByKey
           rowIdx == IF isNew THEN Len(data) + 1 ELSE rowByKey[key]
           newRow == [BlankRow(Len(header)) EXCEPT ![keyColIdx] = key]
           data1 == IF isNew THEN Append(data, newRow) ELSE data
           data2 == [data1 EXCEPT ![rowIdx] = writeColumns(@, obj, cols, header)]
       IN  IF key = ""
           THEN processIncoming(data, rowByKey, objs, i + 1, keyColumn, cols, header)
           ELSE processIncoming(data2, MapSet(rowByKey, key, rowIdx), objs, i + 1,
                                keyColumn, cols, header)

upsertByKey(sheet, keyColumn, columnsToWrite, incomingObjects, appendMissingColumns) ==
  IF Len(incomingObjects) = 0 THEN sheet
  ELSE
    LET cols == IF keyColumn \in Range(columnsToWrite) THEN columnsToWrite
                ELSE <<keyColumn>> \o columnsToWrite
        read == IF getLastRow(sheet) > 0
                THEN [j \in 1..Len(sheet[1]) |-> trim(JsString(OrEmpty(sheet[1][j])))]
                ELSE <<>>
        withKey == pushMissing(read, <<keyColumn>>, 1)
        header == IF appendMissingColumns THEN pushMissing(withKey, cols, 1)
                  ELSE withKey
        data == [i \in 1..Len(sheet) |-> padTo(sheet[i], Len(header))]
        rowByKey == rowByKeyFrom(data, 2, buildHeaderIndex(header, keyColumn), EmptyMap)
    IN  Canon(processIncoming(data, rowByKey, incomingObjects, 1, keyColumn, cols, header))

-----------------------------------------------------------------------------
(* The legacy upserts: UL_upsertByKey_ (UpsertLogic.gs, called with         *)
(* appendMissingColumns = true) and upsertCalculatedMetrics_ (Calculations.gs)*)

\* UL_indexHeader_: the position of a name among the trimmed header cells.
UL_indexHeader_(header, name) ==
  SetMax({j \in 1..Len(header) : trim(JsString(header[j])) = name})

RECURSIVE UL_pushMissing(_, _, _)
UL_pushMissing(header, cols, i) ==
  IF i > Len(cols) THEN header
  ELSE UL_pushMissing(IF UL_indexHeader_(header, cols[i]) = 0
                      THEN Append(header, cols[i]) ELSE header, cols, i + 1)

\* UL_ensureColumns_: the header with the missing columns pushed, and the
\* sheet with that header written to row 1 when it changed.
UL_ensureColumns_(sh, requiredCols) ==
  LET read == IF getLastRow(sh) > 0 THEN sh[1] ELSE <<>>
      header == UL_pushMissing(read, requiredCols, 1)
  IN  [header |-> header,
       sheet |-> IF header # read THEN setValues(sh, 1, <<header>>) ELSE sh]

RECURSIVE UL_rowIndexByKey(_, _, _, _)
UL_rowIndexByKey(data, r, keyIndex, map) ==
  IF r > Len(data) THEN map
  ELSE UL_rowIndexByKey(data, r + 1, keyIndex,
         IF data[r][keyIndex] # "" THEN MapSet(map, JsString(data[r][keyIndex]), r)
         ELSE map)

\* grid[r][c] = obj[col] for the columns the object carries as own property.
UL_writeColumns(row, obj, cols, header) ==
  [j \in 1..Len(row) |->
     IF \E c \in 1..Len(cols) :
          UL_indexHeader_(header, cols[c]) = j /\ cols[c] \in DOMAIN obj
     THEN nullToEmpty(obj[CHOOSE name \in Range(cols) :
                            UL_indexHeader_(header, name) = j /\ name \in DOMAIN obj])
     ELSE row[j]]

RECURSIVE UL_processIncoming(_, _, _, _, _, _, _)
UL_processIncoming(grid, rowIndexByKey, incoming, i, keyCol, cols, header) ==
  IF i > Len(incoming) THEN grid
  ELSE LET obj == incoming[i]
           key == getProp(obj, keyCol)
           isNew == JsString(key) \notin DOMAIN rowIndexByKey
           r == IF isNew THEN Len(grid) + 1 ELSE rowIndexByKey[JsString(key)]
           empty == [BlankRow(Len(header)) EXCEPT ![UL_indexHeader_(header, keyCol)] = key]
           grid1 == IF isNew THEN Append(grid, empty) ELSE grid
           grid2 == [grid1 EXCEPT ![r] = UL_writeColumns(@, obj, cols, header)]
       IN  IF key \in {JsNull, JsUndefined, ""}
           THEN UL_processIncoming(grid, rowIndexByKey, incoming, i + 1, keyCol, cols, header)
           ELSE UL_processIncoming(grid2, MapSet(rowIndexByKey, JsString(key), r),
                                   incoming, i + 1, keyCol, cols, header)

UL_upsertByKey_(sh, keyCol, columnsToWrite, incoming) ==
  IF Len(incoming) = 0 THEN sh
  ELSE
    LET ensured == UL_ensureColumns_(sh, columnsToWrite)
        header == ensured.header
        data == [i \in 1..Len(ensured.sheet) |-> padTo(ensured.sheet[i], Len(header))]
        rowIndexByKey ==
          UL_rowIndexByKey(data, 2, UL_indexHeader_(header, keyCol), EmptyMap)
    IN  Canon(UL_processIncoming(data, rowIndexByKey, incoming, 1, keyCol,
                                 columnsToWrite, header))

\* getTable_: a sheet with fewer than two rows reads as an empty table.
getTable_(sh) ==
  IF Len(sh) < 2 THEN [header |-> <<>>, rows |-> <<>>]
  ELSE [header |-> [j \in 1..Len(sh[1]) |-> trim(JsString(sh[1][j]))],
        rows |-> Tail(sh)]

\* header.indexOf(name): the first position of the name, 0 when absent.
indexOf(header, name) ==
  IF \E j \in 1..Len(header) : header[j] = name
  THEN CHOOSE j \in 1..Len(header) :
         header[j] = name /\ \A q \in 1..(j - 1) : header[q] # name
  ELSE 0

RECURSIVE pushOwned(_, _, _)
pushOwned(header, owned, i) ==
  IF i > Len(owned) THEN header
  ELSE pushOwned(IF owned[i] \in Range(header) THEN header
                 ELSE Append(header, owned[i]), owned, i + 1)

\* a.localeCompare(b) on the tickers of the model, as a rank.
localeRank(t) == CASE t = "AAPL" -> 1 [] t = "MSFT" -> 2 [] OTHER -> 3

\* The keys of the existing map, sorted by localeCompare.
RECURSIVE sortedKeys(_)
sortedKeys(S) ==
  IF S = {} THEN <<>>
  ELSE LET m == CHOOSE x \in S : \A y \in S : localeRank(x) <= localeRank(y)
       IN  <<m>> \o sortedKeys(S \ {m})

\* existing: ticker -> row over the table rows i.., a later row of a ticker
\* replacing an earlier one; rows without ticker are left out.
RECURSIVE existingFrom(_, _, _, _)
existingFrom(rows, i, tIdx, existing) ==
  IF i > Len(rows) THEN existing
  ELSE LET t == trim(JsString(OrEmpty(rows[i][tIdx])))
       IN  existingFrom(rows, i + 1, tIdx,
                        IF t # "" THEN MapSet(existing, t, rows[i]) ELSE existing)

\* row[col] = v for every property of rec whose name the header has.
legacyWriteRecord(row, rec, header) ==
  [j \in 1..Len(header) |->
     IF header[j] \in DOMAIN rec /\ indexOf(header, header[j]) = j
     THEN nullToEmpty(rec[header[j]])
     ELSE row[j]]

RECURSIVE mergeRecords(_, _, _, _, _)
mergeRecords(existing, recs, i, header, tIdx) ==
  IF i > Len(recs) THEN existing
  ELSE LET ticker == recs[i]["Ticker"]
           row == IF ticker \in DOMAIN existing
                  THEN padTo(existing[ticker], Len(header))
                  ELSE [BlankRow(Len(header)) EXCEPT ![tIdx] = ticker]
       IN  mergeRecords(MapSet(existing, ticker, legacyWriteRecord(row, recs[i], header)),
                        recs, i + 1, header, tIdx)

\* upsertCalculatedMetrics_ on the entries of mapByTicker (recs, in map order).
upsertCalculatedMetrics_(sh, owned, recs) ==
  LET tbl == getTable_(sh)
      header == pushOwned(IF Len(tbl.header) > 0 THEN tbl.header ELSE <<"Ticker">>,
                          owned, 1)
      tIdx == indexOf(header, "Ticker")
      rows == [i \in 1..Len(tbl.rows) |-> padTo(tbl.rows[i], Len(header))]
      existing == mergeRecords(existingFrom(rows, 1, tIdx, EmptyMap), recs, 1, header, tIdx)
      order == sortedKeys(DOMAIN existing)
  IN  Canon(<<header>> \o [i \in 1..Len(order) |-> padTo(existing[order[i]], Len(header))])

-----------------------------------------------------------------------------
(* Upserts into Calculated_Metrics *)

\* ownedColumns of upsertCalculatedMetrics / owned of upsertCalculatedMetrics_
ownedColumns ==
  <<"Ticker",
    "OpPS_Latest", "OpPS_5Y_CAGR", "OpPS_9Y_CAGR", "OpPS_10Y_CAGR", "OpPS_AdjustedFlag",
    "EPS_Latest", "EPS_5Y_CAGR", "EPS_9Y_CAGR", "EPS_10Y_CAGR", "EPS_AdjustedFlag",
    "FCFPS_Latest", "FCFPS_5Y_CAGR", "FCFPS_9Y_CAGR", "FCFPS_10Y_CAGR", "FCFPS_AdjustedFlag",
    "Calc_Timestamp">>

CagrColumns ==
  {m \o w : m \in {"OpPS", "EPS", "FCFPS"}, w \in {"_5Y_CAGR", "_9Y_CAGR", "_10Y_CAGR"}}

Tickers == {"AAPL", "MSFT"}

\* The value of column col in its n-th version.
Val(col, n) == col \o "#" \o DecStr(n)

\* The record calculateTickerMetrics / computeCAGRs_ builds for a ticker:
\* every owned column is an own property; with fewer than six fiscal years
\* ("short") the CAGRs are null.
MetricsObject(t, kind, n) ==
  [c \in Range(ownedColumns) |->
     IF c = "Ticker" THEN t
     ELSE IF kind = "short" /\ c \in CagrColumns THEN JsNull
     ELSE Val(c, n)]

\* A row object of another caller of upsertByKey: it carries two columns.
PartialObject(t, n) ==
  [c \in {"Ticker", "OpPS_Latest"} |-> IF c = "Ticker" THEN t ELSE Val(c, n)]

RowObject(t, kind, n) ==
  IF kind = "partial" THEN PartialObject(t, n) ELSE MetricsObject(t, kind, n)

\* The headers a Calculated_Metrics sheet may have before the call: all
\* owned columns, some of them, none of them; each with a column of the user.
StoreHeaders ==
  {ownedColumns \o <<"Notes">>, <<"Ticker", "Notes", "OpPS_Latest">>, <<"Notes">>}

\* The tickers of its data rows, top to bottom.
StoreTickers ==
  {<<>>, <<"MSFT">>, <<"MSFT", "AAPL">>, <<"MSFT", "MSFT">>,
   <<"MSFT", "", "AAPL">>, <<"MSFT ">>}

StoreRow(header, t, n) ==
  [j \in 1..Len(header) |-> IF header[j] = "Ticker" THEN t ELSE Val(header[j], n)]

Store(header, ts) ==
  <<header>> \o [i \in 1..Len(ts) |-> StoreRow(header, ts[i], i)]

InitialStores ==
  {<<>>} \cup {Store(h, ts) : h \in StoreHeaders, ts \in StoreTickers}

\* The batches of the CAGR engine: one record per ticker, in map order.
EngineBatches ==
  UNION {{[i \in 1..n |-> MetricsObject(ts[i], ks[i], 10)] :
            ts \in {f \in [1..n -> Tickers] : \A a, b \in 1..n : f[a] = f[b] => a = b},
            ks \in [1..n -> {"full", "short"}]} :
         n \in 1..MaxObjects}

\* The batches of other callers: any objects, keys may repeat or be empty.
GenericBatches ==
  UNION {{[i \in 1..n |-> RowObject(ts[i], ks[i], 10 + i)] :
            ts \in [1..n -> Tickers \cup {""}],
            ks \in [1..n -> {"full", "partial"}]} :
         n \in 1..MaxObjects}

ColumnChoices == {ownedColumns, <<"OpPS_Latest", "EPS_Latest">>}

upsertCalculatedMetrics(sheet, dataByTicker) ==
  upsertByKey(sheet, "Ticker", ownedColumns, dataByTicker, TRUE)

\* The sheet after a call.
ApplyCall(sheet, call) ==
  CASE call.kind = "upsertCalculatedMetrics" ->
         upsertCalculatedMetrics(sheet, call.batch)
    [] call.kind = "upsertCalculatedMetrics_" ->
         upsertCalculatedMetrics_(sheet, ownedColumns, call.batch)
    [] call.kind = "upsertByKey" ->
         upsertByKey(sheet, "Ticker", call.cols, call.batch, TRUE)
    [] call.kind = "UL_upsertByKey_" ->
         UL_upsertByKey_(sheet, "Ticker", call.cols, call.batch)

CmInit ==
  /\ RcIdle
  /\ ScIdle
  /\ RnIdle
  /\ CagrIdle
  /\ LongIdle
  /\ PsIdle
  /\ cmSheet \in InitialStores
  /\ cmPrev = <<>>
  /\ cmCall = NoCall
  /\ cmApplied = 0

\* computeCAGRs (cagr.ts) merging its records: upsertCalculatedMetrics.
UpsertCalculatedMetrics ==
  /\ cmApplied = 0
  /\ \E b \in EngineBatches :
       LET call == [kind |-> "upsertCalculatedMetrics", cols |-> ownedColumns, batch |-> b]
       IN  /\ cmSheet' = ApplyCall(cmSheet, call)
           /\ cmCall' = call
  /\ cmPrev' = cmSheet
  /\ cmApplied' = 1
  /\ UNCHANGED <<cagrVars, longVars, psVars, rcVars, scVars, rnVars>>

\* computeCAGRs_ (Calculations.gs) merging its records.
UpsertCalculatedMetricsLegacy ==
  /\ cmApplied = 0
  /\ \E b \in EngineBatches :
       LET call == [kind |-> "upsertCalculatedMetrics_", cols |-> ownedColumns, batch |-> b]
       IN  /\ cmSheet' = ApplyCall(cmSheet, call)
           /\ cmCall' = call
  /\ cmPrev' = cmSheet
  /\ cmApplied' = 1
  /\ UNCHANGED <<cagrVars, longVars, psVars, rcVars, scVars, rnVars>>

\* Any other call of upsertByKey on the sheet.
UpsertByKey ==
  /\ cmApplied = 0
  /\ \E b \in GenericBatches, cols \in ColumnChoices :
       LET call == [kind |-> "upsertByKey", cols |-> cols, batch |-> b]
       IN  /\ cmSheet' = ApplyCall(cmSheet, call)
           /\ cmCall' = call
  /\ cmPrev' = cmSheet
  /\ cmApplied' = 1
  /\ UNCHANGED <<cagrVars, longVars, psVars, rcVars, scVars, rnVars>>

\* Any call of UL_upsertByKey_ on the sheet.
UpsertByKeyLegacy ==
  /\ cmApplied = 0
  /\ \E b \in GenericBatches :
       LET call == [kind |-> "UL_upsertByKey_", cols |-> ownedColumns, batch |-> b]
       IN  /\ cmSheet' = ApplyCall(cmSheet, call)
           /\ cmCall' = call
  /\ cmPrev' = cmSheet
  /\ cmApplied' = 1
  /\ UNCHANGED <<cagrVars, longVars, psVars, rcVars, scVars, rnVars>>

\* The same call once more, on the result of the first.
ApplyAgain ==
  /\ cmApplied = 1
  /\ cmSheet' = ApplyCall(cmSheet, cmCall)
  /\ cmPrev' = cmSheet
  /\ cmApplied' = 2
  /\ UNCHANGED <<cmCall, cagrVars, longVars, psVars, rcVars, scVars, rnVars>>

CmNext ==
  \/ UpsertCalculatedMetrics
  \/ UpsertCalculatedMetricsLegacy
  \/ UpsertByKey
  \/ UpsertByKeyLegacy
  \/ ApplyAgain

SpecUpsert == CmInit /\ [][CmNext]_vars

-----------------------------------------------------------------------------
(* The per-share builder: per_share/builder.ts and the legacy PerShare.gs.  *)
(* Raw facts are whole numbers; a derived Per_Share cell is a number in     *)
(* thousandths (the three decimals round3 keeps).                           *)

\* A fact the long table has no row for (undefined), and the number Infinity.
Missing == [t |-> "missing", v |-> 0]
Inf == [t |-> "inf", v |-> 0]

MAX_YEARS_PER_TICKER == 10

\* Math.round(n / d * 1000): the quotient in thousandths, ties upwards.
RoundDiv1000(n, d) ==
  LET nn == IF d < 0 THEN -n ELSE n
      dd == IF d < 0 THEN -d ELSE d
  IN  (2000 * nn + dd) \div (2 * dd)

\* round3(safeDiv(numerator, denominator)) of utils/format.ts.
round3SafeDiv(numerator, denominator) ==
  LET num == toNum(numerator)
      den == toNum(denominator)
  IN  IF IsNull(num) \/ IsNull(den) THEN NULL
      ELSE IF den.v = 0 THEN NULL
      ELSE Num(RoundDiv1000(num.v, den.v))

\* firstNonNull over a value and its fallbacks.
RECURSIVE firstNonNull(_)
firstNonNull(values) ==
  IF Len(values) = 0 THEN NULL
  ELSE IF values[1].t \in {"null", "missing", "blank"} THEN firstNonNull(Tail(values))
  ELSE values[1]

\* getValidShares: the income-statement count if it is a number > 0, else the
\* balance-sheet count if that is; 0 otherwise.
getValidShares(data) ==
  LET isShares == toNum(data.is.SharesDiluted)
      bsShares == toNum(data.bs.SharesDiluted)
      shares == IF IsNum(isShares) /\ isShares.v # 0 /\ isShares.v > 0
                THEN isShares ELSE bsShares
  IN  IF IsNum(shares) /\ shares.v # 0 /\ shares.v > 0 THEN shares ELSE Num(0)

\* calculateRowMetrics; shares records the share count the row was computed
\* with, cells are the six derived columns after Ticker and FiscalYear.
calculateRowMetrics(year, shares, data) ==
  LET equity == toNum(firstNonNull(<<data.bs.Equity, data.bs.EquityAlt1,
                                     data.bs.EquityAlt2, data.bs.EquityAlt3>>))
      debt == toNum(firstNonNull(<<data.bs.Debt, data.bs.DebtAlt1, data.bs.DebtAlt2>>))
  IN  [fy |-> year, shares |-> shares,
       cells |-> <<round3SafeDiv(data.is.Revenue, shares),
                   round3SafeDiv(data.is.GrossProfit, shares),
                   round3SafeDiv(data.is.OperatingIncome, shares),
                   round3SafeDiv(data.is.NetIncome, shares),
                   round3SafeDiv(equity, shares),
                   round3SafeDiv(debt, equity)>>]

\* readLongTable: Value is toNum of the cell; a fact without row stays undefined.
readFacts(f) ==
  [fy |-> f.fy,
   is |-> [k \in DOMAIN f.is |-> IF f.is[k] = Missing THEN Missing ELSE toNum(f.is[k])],
   bs |-> [k \in DOMAIN f.bs |-> IF f.bs[k] = Missing THEN Missing ELSE toNum(f.bs[k])]]

\* The fiscal years of a set in ascending order.
RECURSIVE sortYears(_)
sortYears(S) ==
  IF S = {} THEN <<>>
  ELSE LET m == SetMax(S) IN Append(sortYears(S \ {m}), m)

\* The facts indexed[ticker][year] holds after the rows up to i: a fact a
\* later row carries replaces the one stored before.
RECURSIVE yearData(_, _, _)
yearData(rows, i, year) ==
  IF i = 0
  THEN [fy |-> year,
        is |-> [k \in {"Revenue", "GrossProfit", "OperatingIncome", "NetIncome",
                       "SharesDiluted"} |-> Missing],
        bs |-> [k \in {"Equity", "Debt", "SharesDiluted", "EquityAlt1", "EquityAlt2",
                       "EquityAlt3", "DebtAlt1", "DebtAlt2"} |-> Missing]]
  ELSE LET before == yearData(rows, i - 1, year)
           row == rows[i]
       IN  IF row.fy # year THEN before
           ELSE [fy |-> year,
                 is |-> [k \in DOMAIN before.is |->
                           IF row.is[k] = Missing THEN before.is[k] ELSE row.is[k]],
                 bs |-> [k \in DOMAIN before.bs |->
                           IF row.bs[k] = Missing THEN before.bs[k] ELSE row.bs[k]]]

\* indexByTickerYear (and _ps_indexByTickerYear_) for one ticker: one entry
\* per fiscal year, listed in ascending order of the year (the builders sort
\* the years themselves and walk them from the latest).
indexByTickerYear(rows) ==
  LET years == sortYears({rows[i].fy : i \in 1..Len(rows)})
  IN  [n \in 1..Len(years) |-> yearData(rows, Len(rows), years[n])]

\* The picking loop without its test of MAX_YEARS_PER_TICKER.
RECURSIVE validYears_NoCap(_, _, _)
validYears_NoCap(byYear, i, picked) ==
  IF i = 0 THEN picked
  ELSE LET shares == getValidShares(byYear[i])
       IN  validYears_NoCap(byYear, i - 1,
             IF shares.v > 0
             THEN <<[year |-> byYear[i].fy, shares |-> shares, data |-> byYear[i]]>>
                    \o picked
             ELSE picked)

\* The loop of calculatePerShareMetrics over the years i, i-1, .. (descending):
\* a year with valid shares is picked until MAX_YEARS_PER_TICKER are picked;
\* the result is in ascending order of fiscal year.
RECURSIVE validYears(_, _, _)
validYears(byYear, i, picked) ==
  IF i = 0 THEN picked
  ELSE LET shares == getValidShares(byYear[i])
           picked1 == IF shares.v > 0
                      THEN <<[year |-> byYear[i].fy, shares |-> shares, data |-> byYear[i]]>>
                             \o picked
                      ELSE picked
       IN  IF Len(picked1) >= MAX_YEARS_PER_TICKER THEN picked1
           ELSE validYears(byYear, i - 1, picked1)

calculatePerShareMetrics(byYear) ==
  LET valid == validYears(byYear, Len(byYear), <<>>)
  IN  [n \in 1..Len(valid) |->
         calculateRowMetrics(valid[n].year, valid[n].shares, valid[n].data)]

\* _num (PerShare.gs): NaN, '', null and undefined give 0; any other number,
\* Infinity included, is returned as it is.
_num(v) ==
  CASE v.t = "num" -> v
    [] v.t = "inftext" -> Inf
    [] v.t = "inf" -> Inf
    [] OTHER -> Num(0)

\* The JavaScript comparison x > 0 on a number.
JsGtZero(x) == x.t = "inf" \/ (x.t = "num" /\ x.v > 0)

\* _ps_validShares_
_ps_validShares_(row) ==
  LET a == _num(row.is.SharesDiluted)
      b == _num(row.bs.SharesDiluted)
      sh == IF JsGtZero(a) THEN a ELSE b
  IN  IF JsGtZero(sh) THEN sh ELSE Num(0)

\* _firstNonNull_: the first value that is neither null, undefined nor '';
\* 0 when there is none.
RECURSIVE _firstNonNull_(_)
_firstNonNull_(arr) ==
  IF Len(arr) = 0 THEN Num(0)
  ELSE IF arr[1].t \in {"null", "missing", "blank"} THEN _firstNonNull_(Tail(arr))
  ELSE arr[1]

\* _ps_r3_(_ps_safeDiv_(num, den)): 0 for a zero denominator, for a finite
\* numerator over Infinity and for NaN.
_ps_r3_safeDiv_(num, den) ==
  IF den.t = "num" /\ den.v = 0 THEN Num(0)
  ELSE IF den.t = "inf" THEN Num(0)
  ELSE IF num.t = "inf" THEN Inf
  ELSE Num(RoundDiv1000(num.v, den.v))

\* _ps_readLongTable_: Value is _num of the cell.
legacyReadFacts(f) ==
  [fy |-> f.fy,
   is |-> [k \in DOMAIN f.is |-> IF f.is[k] = Missing THEN Missing ELSE _num(f.is[k])],
   bs |-> [k \in DOMAIN f.bs |-> IF f.bs[k] = Missing THEN Missing ELSE _num(f.bs[k])]]

\* The output row buildPerShare_Full pushes for a picked year.
legacyRow(y, row, shares) ==
  LET eq == _num(_firstNonNull_(<<row.bs.Equity, row.bs.EquityAlt1,
                                  row.bs.EquityAlt2, row.bs.EquityAlt3>>))
      debt == _num(_firstNonNull_(<<row.bs.Debt, row.bs.DebtAlt1, row.bs.DebtAlt2>>))
  IN  [fy |-> y, shares |-> shares,
       cells |-> <<_ps_r3_safeDiv_(_num(row.is.Revenue), shares),
                   _ps_r3_safeDiv_(_num(row.is.GrossProfit), shares),
                   _ps_r3_safeDiv_(_num(row.is.OperatingIncome), shares),
                   _ps_r3_safeDiv_(_num(row.is.NetIncome), shares),
                   _ps_r3_safeDiv_(eq, shares),
                   _ps_r3_safeDiv_(debt, eq)>>]

\* The picking loop of buildPerShare_Full (latest 10 years with valid shares).
RECURSIVE legacyPicked(_, _, _)
legacyPicked(byYear, i, picked) ==
  IF i = 0 THEN picked
  ELSE LET shares == _ps_validShares_(byYear[i])
           picked1 == IF JsGtZero(shares)
                      THEN <<[y |-> byYear[i].fy, row |-> byYear[i], shares |-> shares]>>
                             \o picked
                      ELSE picked
       IN  IF Len(picked1) >= 10 THEN picked1
           ELSE legacyPicked(byYear, i - 1, picked1)

buildPerShare_Full(byYear) ==
  LET picked == legacyPicked(byYear, Len(byYear), <<>>)
  IN  [n \in 1..Len(picked) |-> legacyRow(picked[n].y, picked[n].row, picked[n].shares)]

\* The share-count cells a fiscal year may have in either section.
ShareCells == {Missing, Blank, Text, InfText, Num(0), Num(-500), Num(1000)}
PlainShares == <<Num(1000), Missing>>
\* The balance sheet may also carry a valid count that differs from the one
\* of the income statement.
BsShareCells == ShareCells \cup {Num(2000)}

\* The facts of one fiscal year: the share counts as given, the other facts
\* present and positive, no fallback fields.
YearFacts(fy, isShares, bsShares) ==
  [fy |-> fy,
   is |-> [Revenue |-> Num(5000), GrossProfit |-> Num(2000),
           OperatingIncome |-> Num(1000), NetIncome |-> Num(500),
           SharesDiluted |-> isShares],
   bs |-> [Equity |-> Num(4000), Debt |-> Num(2000), SharesDiluted |-> bsShares,
           EquityAlt1 |-> Missing, EquityAlt2 |-> Missing, EquityAlt3 |-> Missing,
           DebtAlt1 |-> Missing, DebtAlt2 |-> Missing]]

\* Facts of a fiscal year that differ from the plain ones in a numerator or a
\* denominator: no revenue row, revenue 0, equity 0, no equity row at all.
FactProfiles == {"noRevenue", "zeroRevenue", "zeroEquity", "noEquity"}

WithProfile(facts, profile) ==
  CASE profile = "noRevenue" -> [facts EXCEPT !.is.Revenue = Missing]
    [] profile = "zeroRevenue" -> [facts EXCEPT !.is.Revenue = Num(0)]
    [] profile = "zeroEquity" -> [facts EXCEPT !.bs.Equity = Num(0)]
    [] profile = "noEquity" -> [facts EXCEPT !.bs.Equity = Missing]
    [] OTHER -> facts

\* The first fiscal year after the earlier history.
FirstNewYear == 2020

\* A group of long-table rows that holds one more Revenue row for a fiscal
\* year and nothing else.
RevenueOnly(fy, n) ==
  [fy |-> fy,
   is |-> [Revenue |-> Num(n), GrossProfit |-> Missing, OperatingIncome |-> Missing,
           NetIncome |-> Missing, SharesDiluted |-> Missing],
   bs |-> [Equity |-> Missing, Debt |-> Missing, SharesDiluted |-> Missing,
           EquityAlt1 |-> Missing, EquityAlt2 |-> Missing, EquityAlt3 |-> Missing,
           DebtAlt1 |-> Missing, DebtAlt2 |-> Missing]]

\* The earlier history of a ticker: MaxPlainYears fiscal years with plain
\* facts, stored latest year first, and a second Revenue row for the latest
\* of them further down the table.
PlainHistory ==
  [i \in 1..MaxPlainYears |->
     YearFacts(2000 + MaxPlainYears - i, PlainShares[1], PlainShares[2])]
  \o <<RevenueOnly(2000 + MaxPlainYears - 1, 6000)>>

OddYears(facts) ==
  Cardinality({i \in 1..Len(facts) :
                 /\ facts[i].fy >= FirstNewYear
                 /\ facts[i] # YearFacts(facts[i].fy, PlainShares[1], PlainShares[2])})

\* The fiscal years the table has facts for, and the latest of them.
FactYears(facts) == {facts[i].fy : i \in 1..Len(facts)}

PsInit ==
  /\ RcIdle
  /\ ScIdle
  /\ RnIdle
  /\ CagrIdle
  /\ LongIdle
  /\ CmIdle
  /\ psFacts \in {<<>>, PlainHistory}
  /\ psRan = "none"
  /\ psOut = <<>>

\* The extractor stores the facts of one more fiscal year of the ticker.
AddFiscalYear ==
  /\ psRan = "none"
  /\ Cardinality({y \in FactYears(psFacts) : y >= FirstNewYear}) < MaxFactYears
  /\ \E isShares \in ShareCells, bsShares \in BsShareCells, profile \in FactProfiles \cup {"plain"} :
       LET fy == FirstNewYear + Cardinality({y \in FactYears(psFacts) : y >= FirstNewYear})
           year == WithProfile(YearFacts(fy, isShares, bsShares), profile)
       IN  /\ profile # "plain" => <<isShares, bsShares>> = PlainShares
           /\ year # YearFacts(fy, PlainShares[1], PlainShares[2])
                => OddYears(psFacts) < MaxOddYears
           /\ psFacts' = Append(psFacts, year)
  /\ UNCHANGED <<psRan, psOut, cagrVars, longVars, cmVars, rcVars, scVars, rnVars>>

\* buildPerShareFull (per_share/builder.ts)
BuildPerShareFull ==
  /\ psRan = "none"
  /\ psOut' = calculatePerShareMetrics(
                  indexByTickerYear([i \in 1..Len(psFacts) |-> readFacts(psFacts[i])]))
  /\ psRan' = "buildPerShareFull"
  /\ UNCHANGED <<psFacts, cagrVars, longVars, cmVars, rcVars, scVars, rnVars>>

\* buildPerShare_Full (PerShare.gs)
BuildPerShareLegacy ==
  /\ psRan = "none"
  /\ psOut' = buildPerShare_Full(
                  indexByTickerYear([i \in 1..Len(psFacts) |-> legacyReadFacts(psFacts[i])]))
  /\ psRan' = "buildPerShare_Full"
  /\ UNCHANGED <<psFacts, cagrVars, longVars, cmVars, rcVars, scVars, rnVars>>

PsNext == AddFiscalYear \/ BuildPerShareFull \/ BuildPerShareLegacy

SpecPS == PsInit /\ [][PsNext]_vars

-----------------------------------------------------------------------------
(* Column resolution: resolveColumns of utils/sheets.ts and resolveCols_ of *)
(* Calculations.gs, as computeCAGRs and computeCAGRs_ call them on row 1 of *)
(* the Per_Share sheet.  Column indices are 0-based as in the code, -1 for  *)
(* a name the header lacks.                                                 *)

\* toLowerCase on the column names of the model.
toLowerCase(s) ==
  CASE s = "Ticker" -> "ticker"
    [] s = "TICKER" -> "ticker"
    [] s = "Symbol" -> "symbol"
    [] s = "FiscalYear" -> "fiscalyear"
    [] s = "FY" -> "fy"
    [] s = "Year" -> "year"
    [] s = "OpPS" -> "opps"
    [] s = "OpIncPS" -> "opincps"
    [] s = "OperatingIncomePS" -> "operatingincomeps"
    [] s = "OperatingIncomePerShare" -> "operatingincomepershare"
    [] s = "Operating Income/Share" -> "operating income/share"
    [] s = "OpInc/Share" -> "opinc/share"
    [] s = "OpIncomePS" -> "opincomeps"
    [] s = "EPS" -> "eps"
    [] s = "EarningsPS" -> "earningsps"
    [] s = "EarningsPerShare" -> "earningspershare"
    [] s = "NetIncomePerShare" -> "netincomepershare"
    [] s = "FCFPS" -> "fcfps"
    [] s = "FCF Per Share" -> "fcf per share"
    [] s = "FreeCashFlowPS" -> "freecashflowps"
    [] s = "FCF/Share" -> "fcf/share"
    [] s = "FCF_PS" -> "fcf_ps"
    [] s = "RevenuePerShare" -> "revenuepershare"
    [] s = "GrossProfitPerShare" -> "grossprofitpershare"
    [] s = "EquityPerShare" -> "equitypershare"
    [] s = "DebtToEquity" -> "debttoequity"
    [] OTHER -> s

\* PER_SHARE_CONFIG.HEADERS, the header the per-share builder writes.
HEADERS ==
  <<"Ticker", "FiscalYear", "RevenuePerShare", "GrossProfitPerShare",
    "OperatingIncomePerShare", "NetIncomePerShare", "EquityPerShare", "DebtToEquity">>

\* CALC_CONFIG.COLUMN_ALIASES, in the order Object.entries lists it.
COLUMN_ALIASES ==
  <<[name |-> "Ticker", aliases |-> <<"Ticker", "Symbol">>],
    [name |-> "FiscalYear", aliases |-> <<"FiscalYear", "FY", "Year">>],
    [name |-> "OpPS", aliases |-> <<"OpPS", "OpIncPS", "OperatingIncomePS",
                                    "OperatingIncomePerShare", "Operating Income/Share",
                                    "OpInc/Share", "OpIncomePS">>],
    [name |-> "EPS", aliases |-> <<"EPS", "EarningsPS", "EarningsPerShare",
                                   "NetIncomePerShare">>],
    [name |-> "FCFPS", aliases |-> <<"FCFPS", "FCF Per Share", "FreeCashFlowPS",
                                     "FCF/Share", "FCF_PS">>]>>

\* The alias table of computeCAGRs_.
alias ==
  <<COLUMN_ALIASES[1], COLUMN_ALIASES[2], COLUMN_ALIASES[3],
    [name |-> "EPS", aliases |-> <<"EPS", "EarningsPS", "EarningsPerShare">>],
    COLUMN_ALIASES[5]>>

\* array.indexOf(x): the first position, 0-based; -1 when there is none.
indexOfFirst(array, x) ==
  LET hits == {j \in 1..Len(array) : array[j] = x}
  IN  IF hits = {} THEN -1 ELSE (CHOOSE j \in hits : \A k \in hits : j <= k) - 1

\* The alias loop without alias.toLowerCase().
RECURSIVE findAlias_NoLowerCase(_, _, _)
findAlias_NoLowerCase(lowerHeaders, aliases, i) ==
  IF i > Len(aliases) THEN -1
  ELSE LET idx == indexOfFirst(lowerHeaders, aliases[i])
       IN  IF idx # -1 THEN idx
           ELSE findAlias_NoLowerCase(lowerHeaders, aliases, i + 1)

\* The loop over the aliases of one logical name: the index of the first
\* alias that lowerHeaders holds, -1 when it holds none.
RECURSIVE findAlias(_, _, _)
findAlias(lowerHeaders, aliases, i) ==
  IF i > Len(aliases) THEN -1
  ELSE LET idx == indexOfFirst(lowerHeaders, toLowerCase(aliases[i]))
       IN  IF idx # -1 THEN idx
           ELSE findAlias(lowerHeaders, aliases, i + 1)

\* aliases.join(', ')
RECURSIVE joinComma(_)
joinComma(parts) ==
  IF Len(parts) = 0 THEN ""
  ELSE IF Len(parts) = 1 THEN parts[1]
  ELSE parts[1] \o ", " \o joinComma(Tail(parts))

\* The loop over the logical names from entry i on; resolved holds the names
\* done.  The outcome is the returned mapping or the message of the Error
\* thrown at the first name without alias in the header.
RECURSIVE resolveFrom(_, _, _, _, _)
resolveFrom(lowerHeaders, aliasMap, i, resolved, message) ==
  IF i > Len(aliasMap) THEN [thrown |-> FALSE, message |-> <<>>, cols |-> resolved]
  ELSE LET foundIdx == findAlias(lowerHeaders, aliasMap[i].aliases, 1)
       IN  IF foundIdx = -1
           THEN [thrown |-> TRUE, cols |-> EmptyMap,
                 message |-> <<message[1], aliasMap[i].name, message[2],
                               joinComma(aliasMap[i].aliases)>>]
           ELSE resolveFrom(lowerHeaders, aliasMap, i + 1,
                            MapSet(resolved, aliasMap[i].name, foundIdx), message)

resolveColumns(headers, aliasMap) ==
  resolveFrom([j \in 1..Len(headers) |-> toLowerCase(headers[j])], aliasMap, 1,
              EmptyMap, <<"Required column \"", "\" not found. Looked for: ">>)

resolveCols_(header, aliasMap) ==
  resolveFrom([j \in 1..Len(header) |-> toLowerCase(header[j])], aliasMap, 1,
              EmptyMap, <<"Missing required column for ", ". Looked for any of: ">>)

\* The column names a Per_Share sheet may carry after those of its base
\* header, and the base headers: none (empty sheet), the one the per-share
\* builder writes, and one in the alias spelling of the sheet contract.
ExtraNames ==
  {"FCFPS", "fcf_ps", "EPS", "eps", "EarningsPerShare", "Symbol", "TICKER", "OpPS", "Year"}
BaseHeaders == {<<>>, HEADERS, <<"Symbol", "FY", "OpIncPS">>}
PerShareHeaders ==
  {base \o extra : base \in BaseHeaders,
                   extra \in UNION {[1..n -> ExtraNames] : n \in 0..MaxExtraColumns}}

\* The Per_Share data rows under a header: two fiscal years of one ticker and
\* one of another; a ticker column holds the ticker, a year column the year.
PerShareCell(name, ticker, year) ==
  CASE toLowerCase(name) \in {"ticker", "symbol"} -> ticker
    [] toLowerCase(name) \in {"fiscalyear", "fy", "year"} -> year
    [] OTHER -> "1.5"

PerShareRows(header) ==
  IF header = <<>> THEN <<>>
  ELSE <<[j \in 1..Len(header) |-> PerShareCell(header[j], "ALI.PSE", "2019")],
         [j \in 1..Len(header) |-> PerShareCell(header[j], "ALI.PSE", "2020")],
         [j \in 1..Len(header) |-> PerShareCell(header[j], "BDO.PSE", "2020")]>>

\* readTable: the trimmed header and the data rows.
readTable(header) ==
  [header |-> [j \in 1..Len(header) |-> trim(OrEmpty(header[j]))],
   rows |-> PerShareRows(header)]

\* The tickers indexByTicker (and the grouping loop of computeCAGRs_) keeps a
\* series for: those of the rows whose ticker cell is not empty.  The rows
\* of the model all have a fiscal year.
tickersOf(rows, cols) ==
  {trim(OrEmpty(rows[r][cols["Ticker"] + 1])) : r \in 1..Len(rows)} \ {""}

RcInit ==
  /\ CagrIdle
  /\ LongIdle
  /\ CmIdle
  /\ PsIdle
  /\ ScIdle
  /\ RnIdle
  /\ rcHeader \in PerShareHeaders
  /\ rcRan = "none"
  /\ rcCols = <<>>
  /\ rcEmitted = {}
  /\ rcSheets \in {{"Per_Share"}, {"Per_Share", "Calculated_Metrics"}}

\* What the engine throws when the spreadsheet has no Per_Share sheet.
SheetNotFound(message) == [thrown |-> TRUE, cols |-> EmptyMap, message |-> <<message>>]

\* computeCAGRs (calculations/cagr.ts) up to its upsert: one row per ticker,
\* or the Error of the sheet lookup or of resolveColumns and no row.  The
\* output sheet is looked up, and inserted when missing, after the columns
\* are resolved.
ReadPerShare ==
  /\ rcRan = "none"
  /\ LET table == readTable(rcHeader)
         cols == IF "Per_Share" \notin rcSheets
                 THEN SheetNotFound("Sheet \"Per_Share\" not found.")
                 ELSE resolveColumns(table.header, COLUMN_ALIASES)
     IN  /\ rcCols' = cols
         /\ rcEmitted' = IF cols.thrown THEN {} ELSE tickersOf(table.rows, cols.cols)
         /\ rcSheets' = IF cols.thrown THEN rcSheets
                        ELSE rcSheets \cup {"Calculated_Metrics"}
  /\ rcRan' = "computeCAGRs"
  /\ UNCHANGED <<rcHeader, cagrVars, longVars, cmVars, psVars, scVars, rnVars>>

\* computeCAGRs_ (Calculations.gs) up to its upsert; getTable_ returns an
\* empty header for a sheet of fewer than two rows.  The output sheet is
\* looked up, and inserted when missing, before Per_Share is read.
ReadPerShareLegacy ==
  /\ rcRan = "none"
  /\ LET table == IF PerShareRows(rcHeader) = <<>> THEN [header |-> <<>>, rows |-> <<>>]
                  ELSE readTable(rcHeader)
         cols == IF "Per_Share" \notin rcSheets
                 THEN SheetNotFound("Per_Share sheet not found")
                 ELSE resolveCols_(table.header, alias)
     IN  /\ rcCols' = cols
         /\ rcEmitted' = IF cols.thrown THEN {} ELSE tickersOf(table.rows, cols.cols)
  /\ rcSheets' = IF "Per_Share" \notin rcSheets THEN rcSheets
                 ELSE rcSheets \cup {"Calculated_Metrics"}
  /\ rcRan' = "computeCAGRs_"
  /\ UNCHANGED <<rcHeader, cagrVars, longVars, cmVars, psVars, scVars, rnVars>>

RcNext == ReadPerShare \/ ReadPerShareLegacy

SpecResolve == RcInit /\ [][RcNext]_vars

\* The engine run on any spreadsheet: Per_Share may be missing, and so may
\* Calculated_Metrics.
EngineInit ==
  /\ CagrIdle
  /\ LongIdle
  /\ CmIdle
  /\ PsIdle
  /\ ScIdle
  /\ RnIdle
  /\ rcSheets \in SUBSET {"Per_Share", "Calculated_Metrics"}
  /\ rcHeader \in IF "Per_Share" \in rcSheets THEN PerShareHeaders ELSE {<<>>}
  /\ rcRan = "none"
  /\ rcCols = <<>>
  /\ rcEmitted = {}

SpecEngine == EngineInit /\ [][RcNext]_vars

-----------------------------------------------------------------------------
(* Screener.gs: the screener over Calculated_Metrics *)

\* Tickers of Calculated_Metrics in a run of the screener.
MaxTickers == 2

\* A text cell, such as a ticker.
Str(x) == [t |-> "str", v |-> x]

\* The columns buildClassicScreener_ looks up in Calculated_Metrics.
ScreenerColumns ==
  <<"Ticker", "OpPS_Latest", "OpPS_5Y_CAGR", "OpPS_9Y_CAGR", "OpPS_10Y_CAGR",
    "OpPS_AdjustedFlag", "Debt_to_Equity">>

\* indexCols_(h, n, true): the 0-based position of every name in the header,
\* -1 for a name the header does not hold.
indexCols_(h, n) == [x \in {n[i] : i \in 1..Len(n)} |-> indexOfFirst(h, x)]

\* r[j] of a row: undefined when j is -1 or past the end of the row.
cellAt(r, j) == IF j >= 0 /\ j < Len(r) THEN r[j + 1] ELSE Missing

\* toNumOrZero_: Number(v) if finite, otherwise 0.
toNumOrZero_(v) == IF NumberOf(v).t = "num" THEN NumberOf(v).v ELSE 0

\* readOptionalNumber_: Number(cell) if finite, otherwise the default.
readOptionalNumber_(cell, def) ==
  IF NumberOf(cell).t = "num" THEN NumberOf(cell) ELSE def

\* String(r[c.Ticker] || '').trim()
tickerAt(r, j) ==
  LET cell == cellAt(r, j) IN IF cell.t = "str" THEN cell.v ELSE ""

\* toBool_ of the adjusted-flag cell.
toBool_(v) == v = Str("true")

\* The four filters of the row loop, in the order of the code.
passesFilters(g5, gl, de, min5, maxDE, minLong) ==
  /\ toNumOrZero_(g5) > toNumOrZero_(gl)
  /\ ~(isFiniteNum_(min5) /\ ~(toNumOrZero_(g5) >= min5.v))
  /\ ~(isFiniteNum_(maxDE) /\ isFiniteNum_(de)
         /\ ~(NumberOf(de).v <= maxDE.v))
  /\ ~(isFiniteNum_(minLong) /\ ~(toNumOrZero_(gl) >= minLong.v))

\* The output row of one Calculated_Metrics row, or <<>> when the row is
\* skipped.  Without the price sheets the price map is empty, so the last
\* close, the payback period and the traded value are null.
screenRow(r, c, longKey, min5, maxDE, minLong) ==
  LET t == tickerAt(r, c["Ticker"])
      op == toNum_(cellAt(r, c["OpPS_Latest"]))
      g5 == toNum_(cellAt(r, c["OpPS_5Y_CAGR"]))
      gl == toNum_(cellAt(r, c[longKey]))
      adj == toBool_(cellAt(r, c["OpPS_AdjustedFlag"]))
      de == toNum_(cellAt(r, c["Debt_to_Equity"]))
  IN  IF t = "" THEN <<>>
      ELSE IF ~passesFilters(g5, gl, de, min5, maxDE, minLong) THEN <<>>
      ELSE <<[Ticker |-> t, Op |-> op, Star |-> ~IsNull(op) /\ adj,
              G5 |-> g5, GL |-> gl, YoY |-> NULL, DE |-> de,
              Last |-> NULL, Pay |-> NULL, Avg30 |-> NULL]>>

RECURSIVE screenRows(_, _, _, _, _, _, _)
screenRows(rows, i, c, longKey, min5, maxDE, minLong) ==
  IF i > Len(rows) THEN <<>>
  ELSE screenRow(rows[i], c, longKey, min5, maxDE, minLong)
         \o screenRows(rows, i + 1, c, longKey, min5, maxDE, minLong)

\* getTable_ of Screener.gs: no header and no rows for a sheet of fewer than
\* two rows.
screenerTable(header, rows) ==
  IF rows = <<>> THEN [header |-> <<>>, rows |-> <<>>]
  ELSE [header |-> header, rows |-> rows]

buildClassicScreener_(header, rows, filter) ==
  LET min5 == readOptionalNumber_(filter.min5, Missing)
      maxDE == readOptionalNumber_(filter.maxDE, Num(150))
      minLong == readOptionalNumber_(filter.minLong, Missing)
      tbl == screenerTable(header, rows)
      c == indexCols_(tbl.header, ScreenerColumns)
      has9 == c["OpPS_9Y_CAGR"] # -1
      longKey == IF has9 THEN "OpPS_9Y_CAGR" ELSE "OpPS_10Y_CAGR"
  IN  screenRows(tbl.rows, 1, c, longKey, min5, maxDE, minLong)

\* Growth rates are in units of 0.01: 20 is a CAGR of 20%.  A rate the CAGR
\* engine could not compute is a blank cell.
RateCells == {Blank, Num(-20), Num(-10), Num(20), Num(30)}
DebtCells == {Blank, Num(100), Num(200)}

\* Calculated_Metrics headers: the one computeCAGRs_ writes (without the
\* EPS and FCFPS columns, which the screener does not read) and one of a
\* sheet that has no 9-year column.
CalcHeaders ==
  {<<"Ticker", "OpPS_Latest", "OpPS_5Y_CAGR", "OpPS_9Y_CAGR", "OpPS_10Y_CAGR",
     "OpPS_AdjustedFlag", "Debt_to_Equity">>,
   <<"Ticker", "OpPS_Latest", "OpPS_5Y_CAGR", "OpPS_10Y_CAGR",
     "OpPS_AdjustedFlag", "Debt_to_Equity">>}

CalcRow(header, ticker, g5, g9, g10, de) ==
  [j \in 1..Len(header) |->
     CASE header[j] = "Ticker" -> Str(ticker)
       [] header[j] = "OpPS_Latest" -> Plain
       [] header[j] = "OpPS_5Y_CAGR" -> g5
       [] header[j] = "OpPS_9Y_CAGR" -> g9
       [] header[j] = "OpPS_10Y_CAGR" -> g10
       [] header[j] = "OpPS_AdjustedFlag" -> Str("false")
       [] OTHER -> de]

\* The first ticker's cells vary freely; the tickers after it are steady
\* growers, one accelerating and one decelerating.
FirstRows(header) ==
  {CalcRow(header, "ALI.PSE", g5, g9, g10, de) :
     g5 \in RateCells,
     g9 \in IF indexOfFirst(header, "OpPS_9Y_CAGR") = -1 THEN {Blank} ELSE RateCells,
     g10 \in RateCells, de \in DebtCells}

OtherRows(header, n) ==
  {CalcRow(header, IF n = 2 THEN "BDO.PSE" ELSE "SM.PSE", g5, Num(20), Num(20), Num(100)) :
     g5 \in {Num(10), Num(30)}}

CalcTables(header) ==
  {<<>>}
    \cup {<<r>> : r \in FirstRows(header)}
    \cup UNION {{<<r1, r2>> : r1 \in FirstRows(header), r2 \in OtherRows(header, 2)} :
                  k \in {n \in {2} : n <= MaxTickers}}
    \cup UNION {{<<r1, r2, r3>> : r1 \in FirstRows(header),
                                  r2 \in OtherRows(header, 2),
                                  r3 \in OtherRows(header, 3)} :
                  k \in {n \in {3} : n <= MaxTickers}}

FilterCells ==
  [min5 : {Blank, Num(25)}, maxDE : {Blank, Text, Num(150)},
   minLong : {Blank, Num(-15)}]

ScInit ==
  /\ RnIdle
  /\ CagrIdle
  /\ LongIdle
  /\ CmIdle
  /\ PsIdle
  /\ RcIdle
  /\ scHeader \in CalcHeaders
  /\ scRows \in CalcTables(scHeader)
  /\ scFilter = NoFilter
  /\ scRan = "none"
  /\ scOut = <<>>

\* The user fills in the filter block C4:C6 of the Screener sheet.
EditFilter ==
  /\ scRan = "none"
  /\ scFilter = NoFilter
  /\ scFilter' \in FilterCells \ {NoFilter}
  /\ UNCHANGED <<scHeader, scRows, scRan, scOut, cagrVars, longVars, cmVars,
                 psVars, rcVars, rnVars>>

\* menu_RunScreener
RunScreener ==
  /\ scRan = "none"
  /\ scOut' = buildClassicScreener_(scHeader, scRows, scFilter)
  /\ scRan' = "buildClassicScreener_"
  /\ UNCHANGED <<scHeader, scRows, scFilter, cagrVars, longVars, cmVars,
                 psVars, rcVars, rnVars>>

ScNext == EditFilter \/ RunScreener

SpecScreener == ScInit /\ [][ScNext]_vars

-----------------------------------------------------------------------------
(* Upserts into stores that hold several rows under one key *)

\* Raw_Fundamentals_Annual sheets in which a key has two rows: adjacent, or
\* with the row of another key between them.
DuplicateLongSheets ==
  {<<ANNUAL_HEADERS, [FactRow(f, 0) EXCEPT ![6] = "99"], FactRow(f, 0)>> :
     f \in Fields}
    \cup {<<ANNUAL_HEADERS, [FactRow("totalRevenue", 0) EXCEPT ![6] = "99"],
            FactRow("netIncome", 0), FactRow("totalRevenue", 0)>>}

\* Calculated_Metrics sheets in which MSFT has two rows.
DuplicateStores ==
  {Store(h, ts) : h \in StoreHeaders,
                  ts \in {<<"MSFT", "MSFT">>, <<"MSFT", "AAPL", "MSFT">>}}

DupInit ==
  /\ RcIdle
  /\ ScIdle
  /\ RnIdle
  /\ CagrIdle
  /\ PsIdle
  /\ \/ /\ CmIdle
        /\ longSheet \in DuplicateLongSheets
        /\ keyMap = EmptyMap
        /\ longImpl = "none"
        /\ longBefore = <<>>
        /\ longBatch = <<>>
        /\ fetched = 0
     \/ /\ LongIdle
        /\ cmSheet \in DuplicateStores
        /\ cmPrev = <<>>
        /\ cmCall = NoCall
        /\ cmApplied = 0

\* A behaviour works on the store that holds the duplicates.
DupNext ==
  \/ (longSheet # <<>> /\ StartExtract)
  \/ (longSheet # <<>> /\ UpsertBatch)
  \/ (cmSheet # <<>> /\ UpsertCalculatedMetrics)
  \/ (cmSheet # <<>> /\ UpsertByKey)

SpecDuplicates == DupInit /\ [][DupNext]_vars

-----------------------------------------------------------------------------
(* The write-back of a Calculated_Metrics upsert, one store write at a time *)

\* upsertByKey up to sheet.clearContents(): the merged table is in memory and
\* the sheet is empty.
ClearContents ==
  /\ cmCall = NoCall
  /\ \E b \in EngineBatches :
       cmCall' = [kind |-> "upsertCalculatedMetrics", cols |-> ownedColumns, batch |-> b]
  /\ cmPrev' = cmSheet
  /\ cmSheet' = <<>>
  /\ UNCHANGED <<cmApplied, cagrVars, longVars, psVars, rcVars, scVars, rnVars>>

\* upsertCalculatedMetrics_ up to sh.clear().
ClearLegacy ==
  /\ cmCall = NoCall
  /\ \E b \in EngineBatches :
       cmCall' = [kind |-> "upsertCalculatedMetrics_", cols |-> ownedColumns, batch |-> b]
  /\ cmPrev' = cmSheet
  /\ cmSheet' = <<>>
  /\ UNCHANGED <<cmApplied, cagrVars, longVars, psVars, rcVars, scVars, rnVars>>

\* The setValues call that follows: the merged table goes to the sheet.
WriteBack ==
  /\ cmCall # NoCall
  /\ cmApplied = 0
  /\ cmSheet' = ApplyCall(cmPrev, cmCall)
  /\ cmApplied' = 1
  /\ UNCHANGED <<cmPrev, cmCall, cagrVars, longVars, psVars, rcVars, scVars, rnVars>>

WriteNext == ClearContents \/ ClearLegacy \/ WriteBack

SpecWrites == CmInit /\ [][WriteNext]_vars

-----------------------------------------------------------------------------
(* Claims about the CAGR engine *)

\* The window lengths and the records each needs (W + 1).
WindowYears == <<5, 9, 10>>

\* The raw (unfloored) value of a Per_Share cell: its number, or null for a
\* blank or non-numeric cell.
RawOf(cell) == IF cell.t = "num" THEN cell ELSE NULL
NonPositive(x) == IsNum(x) /\ x.v <= 0

\* The floor rule fired on the latest value or on an endpoint of a window
\* that has enough records; raw is the series of one metric as the engine
\* read it.
FloorRuleFired(raw) ==
  LET N == Len(raw)
  IN  \/ NonPositive(raw[N])
      \/ \E i \in 1..Len(WindowYears) :
            /\ N >= WindowYears[i] + 1
            /\ NonPositive(raw[N]) \/ NonPositive(raw[N - WindowYears[i]])

\* C1: for every metric, the AdjustedFlag the CAGR engine emits (either
\* engine) is true iff the raw latest value is non-null and <= 0, or the raw
\* value at an endpoint of a window with at least W+1 records is non-null
\* and <= 0.
C1_AdjustedFlagIffFloorFired ==
  ran # "none" =>
    \A m \in MetricNames :
      metrics[m].adjustedFlag <=> FloorRuleFired(metrics[m].raw)

\* C1 restricted to computeCAGRs of calc_metrics/cagr.ts, with the raw
\* values taken from the Per_Share cells.
C1_HoldsForCagrTs ==
  ran = "computeCAGRs" =>
    \A m \in MetricNames :
      metrics[m].adjustedFlag <=>
        FloorRuleFired([i \in 1..Len(perShare) |-> RawOf(perShare[i][m])])

\* C2: in calculateMetricCAGRs, a window with fewer than W+1 records has a
\* null CAGR and a false adjusted component; with at least W+1 records the
\* CAGR is non-null exactly when both raw endpoints are non-null.
C2_WindowGating ==
  ran = "computeCAGRs" =>
    \A m \in MetricNames : \A i \in 1..Len(WindowYears) :
      LET N == Len(perShare)
          W == WindowYears[i]
          w == metrics[m].windows[i]
      IN  /\ N < W + 1 => IsNull(w.cagr) /\ ~w.adj
          /\ N >= W + 1 =>
               (~IsNull(w.cagr) <=>
                  /\ ~IsNull(RawOf(perShare[N][m]))
                  /\ ~IsNull(RawOf(perShare[N - W][m])))

\* Six records with both 5Y endpoints present: the 5Y CAGR is computed
\* while the 9Y and 10Y CAGRs are null.
C2_Witness ==
  /\ ran = "computeCAGRs"
  /\ Len(perShare) = 6
  /\ ~IsNull(metrics["OpPS"].cagr5Y)
  /\ IsNull(metrics["OpPS"].cagr9Y)

-----------------------------------------------------------------------------
(* Claims about the long-table upsert *)

\* The key cells (Ticker, Date, Section, Field) of a Raw_Fundamentals row.
KeyCells(row) == <<row[1], row[2], row[4], row[5]>>
\* The data rows of a sheet that carry key k.
RowsWithKey(sheet, k) == {i \in 2..Len(sheet) : KeyCells(sheet[i]) = k}
\* The positions of the last batch that carry key k.
BatchPositions(k) == {i \in 1..Len(longBatch) : KeyCells(longBatch[i]) = k}

\* C3: after an upsert call (upsertLongTable or _upsertLong_) whose batch
\* holds two or more rows with one composite key that the store did not hold
\* before the call, the store holds exactly one row with that key.
C3_OneRowPerRepeatedNewKey ==
  longBatch # <<>> =>
    \A i \in 1..Len(longBatch) :
      LET k == KeyCells(longBatch[i])
      IN  (Cardinality(BatchPositions(k)) >= 2 /\ RowsWithKey(longBefore, k) = {})
            => Cardinality(RowsWithKey(longSheet, k)) = 1

\* C4: after upsertLongTable, for every key of the batch the store holds a
\* row with that key, and every row stored under the key equals the last
\* incoming row with that key.
C4_LastIncomingRowWins ==
  (longImpl = "upsertLongTable" /\ longBatch # <<>>) =>
    \A i \in 1..Len(longBatch) :
      LET k == KeyCells(longBatch[i])
          last == longBatch[SetMax(BatchPositions(k))]
      IN  /\ RowsWithKey(longSheet, k) # {}
          /\ \A r \in RowsWithKey(longSheet, k) : longSheet[r] = last

-----------------------------------------------------------------------------
(* Claims about the single-key upsert into Calculated_Metrics *)

\* The calls that go through upsertByKey or UL_upsertByKey_.
UpsertByKeyKinds == {"upsertByKey", "upsertCalculatedMetrics", "UL_upsertByKey_"}
\* The merges of the CAGR engine.
EngineKinds == {"upsertCalculatedMetrics", "upsertCalculatedMetrics_"}

\* The column of a sheet whose header cell is Ticker (0 without one).
TickerCol(sheet) ==
  IF Len(sheet) = 0 THEN 0
  ELSE SetMax({j \in 1..Len(sheet[1]) : trim(sheet[1][j]) = "Ticker"})
\* The ticker of row i of a sheet ('' without a Ticker column).
TickerAt(sheet, i) ==
  IF TickerCol(sheet) = 0 THEN "" ELSE trim(CellAt(sheet, i, TickerCol(sheet)))
\* The key of an incoming object.
KeyOf(obj) == trim(OrEmpty(getProp(obj, "Ticker")))
\* The keys of the batch of the last call.
BatchKeys == {KeyOf(cmCall.batch[i]) : i \in 1..Len(cmCall.batch)} \ {""}
\* columnsToWrite of the last call, the key column included.
WrittenColumns == Range(cmCall.cols) \cup {"Ticker"}

\* C5: applying the same batch a second time with upsertByKey (or
\* UL_upsertByKey_) to the result of the first application leaves the header
\* row, the number of columns, the number of rows and every cell unchanged.
C5_UpsertByKeyIdempotent ==
  (cmApplied = 2 /\ cmCall.kind \in UpsertByKeyKinds) => cmSheet = cmPrev

\* C6: for every pre-existing row whose key is the key of an incoming object
\* of an upsertByKey (or UL_upsertByKey_) call, each column of the store that
\* is not in columnsToWrite, and each column in columnsToWrite that no
\* incoming object of that key carries as own property, holds its pre-upsert
\* value after the call.
C6_UnwrittenColumnsPreserved ==
  (cmApplied >= 1 /\ cmCall.kind \in UpsertByKeyKinds) =>
    \A i \in 2..Len(cmPrev) :
      TickerAt(cmPrev, i) \in BatchKeys =>
        \A j \in 1..Len(cmPrev[1]) :
          LET name == trim(cmPrev[1][j])
              carried == \E o \in 1..Len(cmCall.batch) :
                            /\ KeyOf(cmCall.batch[o]) = TickerAt(cmPrev, i)
                            /\ name \in DOMAIN cmCall.batch[o]
          IN  (name \notin WrittenColumns \/ ~carried)
                => CellAt(cmSheet, i, j) = cmPrev[i][j]

\* upsertByKey updated the OpPS_Latest cell of the MSFT row from a two-column
\* object; the row's Notes, EPS_Latest and Calc_Timestamp cells had values.
C6_Witness ==
  /\ cmApplied = 1
  /\ cmCall.kind = "upsertByKey"
  /\ cmCall.cols = ownedColumns
  /\ cmCall.batch = <<PartialObject("MSFT", 11)>>
  /\ cmPrev = Store(ownedColumns \o <<"Notes">>, <<"MSFT", "AAPL">>)
  /\ cmSheet[2][2] = Val("OpPS_Latest", 11)
  /\ cmSheet[2][18] = Val("Notes", 1)
  /\ cmSheet[2][7] = Val("EPS_Latest", 1)

\* The keys of objs[i..] not in seen, each once, in the order of arrival.
RECURSIVE FirstArrivals(_, _, _)
FirstArrivals(objs, i, seen) ==
  IF i > Len(objs) THEN <<>>
  ELSE IF KeyOf(objs[i]) \in seen \cup {""} THEN FirstArrivals(objs, i + 1, seen)
  ELSE <<KeyOf(objs[i])>> \o FirstArrivals(objs, i + 1, seen \cup {KeyOf(objs[i])})

\* The keys the store held before the call.
PrevKeys == {TickerAt(cmPrev, i) : i \in 2..Len(cmPrev)}
\* The last row before the appended ones: the last pre-existing row, or the
\* header row the call wrote on an empty sheet.
AppendBase ==
  IF Len(cmPrev) = 0 /\ TickerCol(cmSheet) # 0 THEN 1 ELSE Len(cmPrev)
\* The ticker of row i after the call; a sheet without header row has it in
\* its first column.
NewTickerAt(i) ==
  IF TickerCol(cmSheet) = 0 THEN trim(CellAt(cmSheet, i, 1)) ELSE TickerAt(cmSheet, i)

\* C7: after a calculated-metrics upsert (upsertByKey, upsertCalculatedMetrics_)
\* every pre-existing data row is at the row position it had before the call,
\* and the rows of keys not previously present follow all pre-existing rows
\* in the order in which their keys first arrive in the batch.
C7_RowsKeepPositionNewRowsAppended ==
  (cmApplied >= 1 /\ cmCall.kind \in EngineKinds \cup {"upsertByKey"}) =>
    LET arrivals == FirstArrivals(cmCall.batch, 1, PrevKeys)
    IN  /\ \A i \in 2..Len(cmPrev) : NewTickerAt(i) = TickerAt(cmPrev, i)
        /\ Len(cmSheet) = AppendBase + Len(arrivals)
        /\ \A n \in 1..Len(arrivals) : NewTickerAt(AppendBase + n) = arrivals[n]

\* C8: when the CAGR engine merges its records (upsertCalculatedMetrics or
\* upsertCalculatedMetrics_), every pre-existing data row whose ticker is not
\* a ticker of the run is still in the sheet with all of its cells unchanged,
\* rows that repeat another row's ticker included.
C8_OtherTickersPreserved ==
  (cmApplied >= 1 /\ cmCall.kind \in EngineKinds) =>
    \A i \in 2..Len(cmPrev) :
      TickerAt(cmPrev, i) \notin BatchKeys =>
        \E r \in 2..Len(cmSheet) :
          \A j \in 1..Len(cmPrev[i]) : CellAt(cmSheet, r, j) = cmPrev[i][j]

\* C9: after the CAGR engine's upsert, row 1 is a header row that holds each
\* owned column name exactly once, and every value written for a ticker sits
\* in that ticker's row under the header cell of its name.
C9_HeaderRowNamesEveryOwnedColumn ==
  (cmApplied >= 1 /\ cmCall.kind \in EngineKinds) =>
    /\ Len(cmSheet) >= 1
    /\ \A c \in Range(ownedColumns) :
         Cardinality({j \in 1..Len(cmSheet[1]) : cmSheet[1][j] = c}) = 1
    /\ \A o \in 1..Len(cmCall.batch) :
         \E r \in 2..Len(cmSheet) :
           \A c \in Range(ownedColumns) :
             \E j \in 1..Len(cmSheet[1]) :
               /\ cmSheet[1][j] = c
               /\ cmSheet[r][j] = nullToEmpty(cmCall.batch[o][c])

-----------------------------------------------------------------------------
(* Claims about the per-share builder *)

\* A share-count cell that is a finite number > 0.
ValidSharesCell(cell) == cell.t = "num" /\ cell.v > 0

\* The cells of the long table per fiscal year of the ticker, in ascending
\* order of the year.
FactsByYear == indexByTickerYear(psFacts)

\* C10: the per-share builder (buildPerShareFull, buildPerShare_Full) emits no
\* row for a fiscal year whose share count is zero, negative, missing or
\* non-numeric in both the income-statement and the balance-sheet facts, and
\* every emitted row was computed with a share count that is a finite
\* number > 0.
C10_RowsOnlyWithValidShares ==
  psRan # "none" =>
    /\ \A i \in 1..Len(FactsByYear) :
         (/\ ~ValidSharesCell(FactsByYear[i].is.SharesDiluted)
          /\ ~ValidSharesCell(FactsByYear[i].bs.SharesDiluted))
           => \A n \in 1..Len(psOut) : psOut[n].fy # FactsByYear[i].fy
    /\ \A n \in 1..Len(psOut) : psOut[n].shares.t = "num" /\ psOut[n].shares.v > 0

\* The fiscal years of the ticker that have valid shares: a finite count > 0
\* in the income statement or else in the balance sheet.
ValidShareYearsOf(facts) ==
  {facts[i].fy : i \in {j \in 1..Len(facts) :
      \/ ValidSharesCell(facts[j].is.SharesDiluted)
      \/ ValidSharesCell(facts[j].bs.SharesDiluted)}}

ValidShareYears == LET facts == FactsByYear IN ValidShareYearsOf(facts)

\* The MAX_YEARS_PER_TICKER most recent of them (all when there are fewer).
LatestValidYears ==
  LET valid == ValidShareYears
  IN  {y \in valid : Cardinality({z \in valid : z > y}) < MAX_YEARS_PER_TICKER}

\* C11: the per-share builder outputs exactly the min(10, k) most recent of the
\* ticker's k fiscal years with valid shares, in ascending order of fiscal
\* year, one row per fiscal year; a year without valid shares takes no slot.
C11_LatestTenValidYearsAscending ==
  psRan # "none" =>
    [n \in 1..Len(psOut) |-> psOut[n].fy] = sortYears(LatestValidYears)

\* The numerator and the denominator of each derived cell of an output row:
\* the five aggregates over the share count of the row, and debt over equity.
\* A fact counts as present when its cell holds a finite number.
QuotientsOf(facts, shares) ==
  LET equity == firstNonNull(<<facts.bs.Equity, facts.bs.EquityAlt1,
                               facts.bs.EquityAlt2, facts.bs.EquityAlt3>>)
      debt == firstNonNull(<<facts.bs.Debt, facts.bs.DebtAlt1, facts.bs.DebtAlt2>>)
  IN  <<[num |-> facts.is.Revenue, den |-> shares],
        [num |-> facts.is.GrossProfit, den |-> shares],
        [num |-> facts.is.OperatingIncome, den |-> shares],
        [num |-> facts.is.NetIncome, den |-> shares],
        [num |-> equity, den |-> shares],
        [num |-> debt, den |-> equity]>>

Computable(q) == q.num.t = "num" /\ q.den.t = "num" /\ q.den.v # 0

\* C12: in an output row of the per-share builder a derived cell whose
\* numerator is missing, or whose denominator is missing or zero, is blank
\* (null), never 0; a cell holds 0 only when its quotient was computed and
\* is 0 to three decimals.
C12_FailedDivisionIsBlankNotZero ==
  psRan # "none" =>
    LET facts == FactsByYear
    IN  \A n \in 1..Len(psOut) : \A i \in 1..Len(facts) :
          facts[i].fy = psOut[n].fy =>
            LET qs == QuotientsOf(facts[i], psOut[n].shares)
            IN  \A c \in 1..6 :
                  /\ ~Computable(qs[c]) => psOut[n].cells[c] = NULL
                  /\ psOut[n].cells[c] = Num(0) =>
                       /\ Computable(qs[c])
                       /\ RoundDiv1000(qs[c].num.v, qs[c].den.v) = 0

-----------------------------------------------------------------------------
(* Claims about column resolution *)

\* C13: run on a Per_Share sheet whose header is exactly the one the per-share
\* builder writes, the CAGR engine (computeCAGRs, computeCAGRs_) resolves
\* every column it requires and emits one Calculated_Metrics row per ticker
\* of the table; it does not fail with a missing-column error.
C13_EngineResolvesBuilderHeader ==
  (rcRan # "none" /\ rcHeader = HEADERS) =>
    /\ ~rcCols.thrown
    /\ DOMAIN rcCols.cols = {"Ticker", "FiscalYear", "OpPS", "EPS", "FCFPS"}
    /\ rcEmitted = {"ALI.PSE", "BDO.PSE"}

-----------------------------------------------------------------------------
(* Claims about the numeric helpers of the CAGR engine *)

\* The floor function of the engine that has run.
FloorOf(v) == IF ran = "computeCAGRs" THEN floor01(v) ELSE floor01_(v)

\* What the floor function of the engine may be given: the cells of the
\* metric column and the null a record holds for a cell that is no number.
FloorInputs == {perShare[i][column] : i \in 1..Len(perShare)} \cup {NULL}

\* C14: floor01 (floor01_ in Calculations.gs) is idempotent and positive: a
\* finite x <= 0 gives 0.01, a finite x > 0 gives x, flooring the result again
\* changes nothing, and a blank, null or non-finite input gives null.
C14_FloorIdempotentPositive ==
  ran # "none" =>
    \A x \in FloorInputs :
      /\ x.t = "num" =>
           /\ FloorOf(x) = IF x.v <= 0 THEN Num(FLOOR_VALUE) ELSE x
           /\ FloorOf(x).v > 0
           /\ FloorOf(FloorOf(x)) = FloorOf(x)
      /\ x.t # "num" => FloorOf(x) = NULL

\* The coercion helper of the engine that has run.
CoercionOf(v) == IF ran = "computeCAGRs" THEN toNum(v) ELSE toNum_(v)

\* C15: numeric coercion (toNum, toNum_) maps the empty string and null to
\* null, never to 0; so a blank metric cell of Per_Share is a missing value
\* for the CAGR engine: its record holds null, a blank latest cell gives a
\* null latest value (not 0.01), and blank cells alone never set the
\* adjusted flag.
C15_BlankCoercesToNull ==
  ran # "none" =>
    /\ CoercionOf(Blank) = NULL
    /\ CoercionOf(NULL) = NULL
    /\ \A i \in 1..Len(perShare) :
         perShare[i][column] = Blank => metrics[column].raw[i] = NULL
    /\ perShare[Len(perShare)][column] = Blank => metrics[column].latest = NULL
    /\ (\A i \in 1..Len(perShare) : perShare[i][column] \in {Blank, Plain})
         => ~metrics[column].adjustedFlag

\* C19: whenever the CAGR engine evaluates (endAdj / startAdj)^(1/W) for a
\* window of a metric, endAdj and startAdj are both numbers > 0, whatever the
\* endpoints of the series are (zero, negative, blank or text).
C19_PositiveBaseWhenEvaluated ==
  ran # "none" =>
    \A m \in MetricNames : \A w \in 1..3 :
      metrics[m].windows[w].evaluated =>
        /\ metrics[m].windows[w].endAdj.t = "num"
        /\ metrics[m].windows[w].endAdj.v > 0
        /\ metrics[m].windows[w].startAdj.t = "num"
        /\ metrics[m].windows[w].startAdj.v > 0

\* A window was evaluated although a raw endpoint of it is zero or negative,
\* blank or text, in either engine.
C19_Witness ==
  /\ ran # "none"
  /\ \E w \in 1..3 :
       /\ metrics[column].windows[w].evaluated
       /\ perShare[Len(perShare)][column] \in {Num(0), Num(-200)}
  /\ Len(perShare) >= MIN_ROWS_5Y

\* The alias table of the engine that has run, and whether the header holds
\* a name, compared without regard to case.
AliasMapOf == IF rcRan = "computeCAGRs" THEN COLUMN_ALIASES ELSE alias

InHeader(name) ==
  \E j \in 1..Len(rcHeader) : toLowerCase(rcHeader[j]) = toLowerCase(name)

\* The first alias of a logical name, in the priority order of its list, that
\* the header holds; 0 when it holds none.
FirstPresentAlias(entry) ==
  LET present == {k \in 1..Len(entry.aliases) : InHeader(entry.aliases[k])}
  IN  IF present = {} THEN 0 ELSE CHOOSE k \in present : \A l \in present : k <= l

-----------------------------------------------------------------------------
(* Claims about composite keys *)

\* C17: composite keys are collision-free: two rows whose tuples of key-column
\* values differ get different composite keys from buildKeyMap (and from
\* _readSheetMapByKey_), so the key index of a sheet with two such rows has
\* two entries, also when key values hold the separator, are empty or are 0.
C17_CompositeKeysCollisionFree ==
  (longImpl # "none" /\ Len(longSheet) = 3
     /\ KeyCells(longSheet[2]) # KeyCells(longSheet[3]))
    => Cardinality(DOMAIN keyMap) = 2


-----------------------------------------------------------------------------
(* Claims about the screener *)

\* A rate is available when its cell holds a number.
Available(cell) == cell.t = "num"

\* The long-window rate of a Calculated_Metrics row: the ticker's 9Y CAGR,
\* or its 10Y CAGR when its 9Y CAGR is unavailable.
LongWindowRate(header, r) ==
  LET c == indexCols_(header, ScreenerColumns)
      g9 == cellAt(r, c["OpPS_9Y_CAGR"])
  IN  IF Available(g9) THEN g9 ELSE cellAt(r, c["OpPS_10Y_CAGR"])

Accelerating(header, r) ==
  LET g5 == cellAt(r, indexCols_(header, ScreenerColumns)["OpPS_5Y_CAGR"])
      gl == LongWindowRate(header, r)
  IN  Available(g5) /\ Available(gl) /\ g5.v > gl.v

WrittenTickers == {scOut[n].Ticker : n \in 1..Len(scOut)}

\* C18: every ticker written to the screener output has a 5Y OpPS CAGR above
\* its long-window OpPS CAGR (its 9Y CAGR, or its 10Y CAGR when the 9Y CAGR is
\* unavailable), and every ticker whose 5Y rate does not exceed its
\* long-window rate is left out.
C18_WrittenTickersAccelerate ==
  scRan # "none" =>
    \A i \in 1..Len(scRows) :
      (scRows[i][1].v \in WrittenTickers) => Accelerating(scHeader, scRows[i])

-----------------------------------------------------------------------------
(* Claims about the key index of an extraction run *)

\* C20: after every upsertLongTable call of a run that shares one key index
\* built once by buildKeyMap, each key of the index maps to a row of the sheet
\* that holds a row with that composite key.
C20_KeyIndexPointsAtRowOfKey ==
  longImpl = "upsertLongTable" =>
    \A k \in DOMAIN keyMap :
      /\ keyMap[k] <= Len(longSheet)
      /\ compositeKey(longSheet[keyMap[k]],
                      keyIndicesOf(ANNUAL_HEADERS, keyColumns)) = k

-----------------------------------------------------------------------------
(* Claims about the rows of the annual long table *)

\* The (Ticker, FiscalYear, Section, Field) of a row of Raw_Fundamentals_Annual.
FactIdentity(row) == <<row[1], row[3], row[4], row[5]>>

\* C21: after any sequence of annual extraction upserts, no two rows of the
\* annual raw long table share the same (Ticker, FiscalYear, Section, Field).
C21_OneRowPerTickerYearSectionField ==
  (longImpl # "none" /\ fetched > 0) =>
    \A i, j \in 2..Len(longSheet) :
      i # j => FactIdentity(longSheet[i]) # FactIdentity(longSheet[j])

-----------------------------------------------------------------------------
(* Claims about duplicate keys in the existing store *)

\* The data rows of a Calculated_Metrics sheet whose ticker is k.
RowsOfTicker(sheet, k) == {i \in 2..Len(sheet) : TickerAt(sheet, i) = k}

\* The last object of the batch of the last call that carries key k.
LastObjectOf(k) ==
  cmCall.batch[SetMax({i \in 1..Len(cmCall.batch) : KeyOf(cmCall.batch[i]) = k})]

\* buildKeyMap maps every key of the sheet to the last row that holds it.
IndexHoldsLastRow ==
  (longImpl = "upsertLongTable" /\ fetched = 0) =>
    \A i \in 2..Len(longSheet) :
      LET k == compositeKey(longSheet[i], keyIndicesOf(ANNUAL_HEADERS, keyColumns))
      IN  /\ k \in DOMAIN keyMap
          /\ keyMap[k] = SetMax(RowsWithKey(longSheet, KeyCells(longSheet[i])))

\* The first upsertLongTable call after buildKeyMap writes the last incoming
\* row of a duplicated key to the last row of that key and nowhere else.
LongUpsertOverwritesLastRow ==
  (longImpl = "upsertLongTable" /\ longBatch # <<>> /\ fetched = Len(longBatch)) =>
    \A p \in 1..Len(longBatch) :
      LET k == KeyCells(longBatch[p])
          R == RowsWithKey(longBefore, k)
      IN  Cardinality(R) >= 2 =>
            /\ \A i \in R \ {SetMax(R)} : longSheet[i] = longBefore[i]
            /\ longSheet[SetMax(R)] = longBatch[SetMax(BatchPositions(k))]
            /\ RowsWithKey(longSheet, k) = R

\* upsertByKey writes the objects of a duplicated key to the last row of that
\* key and nowhere else.
UpsertByKeyOverwritesLastRow ==
  (cmApplied = 1 /\ cmCall.kind \in {"upsertCalculatedMetrics", "upsertByKey"}) =>
    \A k \in BatchKeys :
      LET R == RowsOfTicker(cmPrev, k)
          last == SetMax(R)
          obj == LastObjectOf(k)
      IN  Cardinality(R) >= 2 =>
            /\ \A i \in R \ {last} :
                 \A j \in 1..Len(cmSheet[i]) : cmSheet[i][j] = CellAt(cmPrev, i, j)
            /\ RowsOfTicker(cmSheet, k) = R
            /\ \A j \in 1..Len(cmPrev[1]) :
                 (cmPrev[1][j] \in (WrittenColumns \cap DOMAIN obj) \ {"Ticker"})
                   => cmSheet[last][j] = nullToEmpty(obj[cmPrev[1][j]])

\* C22: when the existing store holds several rows with one key, the key
\* index (buildKeyMap, and rowByKey inside upsertByKey) maps the key to the
\* last of them, so an upsert of that key overwrites only that last row and
\* leaves the earlier rows of the key as they were.
C22_DuplicateKeyLastRowWins ==
  /\ IndexHoldsLastRow
  /\ LongUpsertOverwritesLastRow
  /\ UpsertByKeyOverwritesLastRow

\* A duplicated key was upserted: in the long table, with the other key's row
\* between its two rows, or in Calculated_Metrics.
C22_Witness ==
  \/ /\ longImpl = "upsertLongTable" /\ fetched = Len(longBatch)
     /\ Len(longBefore) = 4
     /\ \E p \in 1..Len(longBatch) : longBatch[p][5] = "totalRevenue"
     /\ longSheet[4] # longBefore[4]
  \/ /\ cmApplied = 1 /\ cmCall.kind = "upsertByKey"
     /\ Len(cmPrev) = 4
     /\ "MSFT" \in BatchKeys
     /\ cmSheet[4] # cmPrev[4]
     /\ cmSheet[2] = cmPrev[2]

-----------------------------------------------------------------------------
(* Claims about an interrupted Calculated_Metrics upsert *)

\* C23: if a Calculated_Metrics upsert is interrupted between its store
\* writes, every pre-existing row whose ticker is not in the batch is still
\* in the store, unchanged; only rows of the batch's keys can be missing or
\* partial.
C23_InterruptedUpsertKeepsOtherRows ==
  cmCall # NoCall =>
    \A i \in 2..Len(cmPrev) :
      TickerAt(cmPrev, i) \notin (BatchKeys \cup {""}) =>
        \E n \in 1..Len(cmSheet) :
          \A j \in 1..Len(cmPrev[i]) : CellAt(cmSheet, n, j) = cmPrev[i][j]

-----------------------------------------------------------------------------
(* Claims about a failing run of the CAGR engine *)

\* C24: when computeCAGRs / computeCAGRs_ fails because the Per_Share sheet
\* or a required Per_Share column is missing, no sheet is created or
\* modified: Calculated_Metrics exists afterwards if and only if it existed
\* before, with unchanged contents.
C24_FailingRunLeavesSheetsAlone ==
  [][(rcRan = "none" /\ rcRan' # "none" /\ rcCols'.thrown)
       => (rcSheets' = rcSheets /\ cmSheet' = cmSheet)]_vars

-----------------------------------------------------------------------------
(* Claims about the CAGR engine on the output of the per-share builder *)

\* The cell setValues stores for a derived value: null is an empty cell.
WrittenCell(c) == IF c.t = "null" THEN Blank ELSE c

\* The Per_Share row of a builder row as the engine reads it: OpPS is the
\* OperatingIncomePerShare column, EPS the NetIncomePerShare column; the
\* table has no FCFPS column, so that cell is undefined.
EngineRowOf(r) ==
  [fy |-> r.fy, OpPS |-> WrittenCell(r.cells[3]), EPS |-> WrittenCell(r.cells[4]),
   FCFPS |-> Missing]

BuiltRows == [n \in 1..Len(psOut) |-> EngineRowOf(psOut[n])]

\* C25: on every Per_Share table the per-share builder produces, the engine's
\* 10Y CAGR is null and its 10-year adjusted component false for every
\* metric of the ticker: the builder keeps at most 10 fiscal years and the
\* 10-year window needs 11 records.
C25_BuilderOutputHasNoTenYearWindow ==
  (psRan # "none" /\ Len(psOut) > 0) =>
    LET rows == BuiltRows
        ts == calculateTickerMetrics(indexByTicker(rows))
        legacy == LegacyTickerMetrics(LegacyByTicker(rows))
    IN  /\ Len(rows) < MIN_ROWS_10Y
        /\ \A m \in MetricNames :
             /\ ts[m].cagr10Y = NULL /\ ~ts[m].adj10Y
             /\ legacy[m].cagr10Y = NULL /\ ~legacy[m].adj10Y

\* The builder ran on facts of more than ten fiscal years with valid shares
\* and kept ten of them.
C25_Witness ==
  /\ psRan # "none"
  /\ Len(psOut) = MAX_YEARS_PER_TICKER
  /\ Cardinality(FactYears(psFacts)) > MAX_YEARS_PER_TICKER

-----------------------------------------------------------------------------
(* Claims about the optional thresholds of the screener *)

\* An optional threshold: none when its cell is blank or holds no number.
OptionalThreshold(cell) == IF cell.t = "num" THEN cell ELSE Missing

\* The rows the screener writes when a blank threshold cell filters nothing.
ScreenedWithOptionalThresholds ==
  LET tbl == screenerTable(scHeader, scRows)
      c == indexCols_(tbl.header, ScreenerColumns)
      longKey == IF c["OpPS_9Y_CAGR"] # -1 THEN "OpPS_9Y_CAGR" ELSE "OpPS_10Y_CAGR"
  IN  screenRows(tbl.rows, 1, c, longKey, OptionalThreshold(scFilter.min5),
                 readOptionalNumber_(scFilter.maxDE, Num(150)),
                 OptionalThreshold(scFilter.minLong))

\* C26: the minimum-5Y-growth and minimum-long-window thresholds of the
\* screener are optional: a filter cell left blank excludes no ticker, and a
\* threshold is applied only when the user entered a number.
C26_BlankThresholdExcludesNoTicker ==
  scRan # "none" => scOut = ScreenedWithOptionalThresholds

-----------------------------------------------------------------------------
(* Claims about the share count of a Per_Share row *)

\* C27: the share count used as the per-share denominator of a fiscal year is
\* the income-statement SharesDiluted when that is a finite number > 0, and
\* otherwise the balance-sheet SharesDiluted when that is finite and > 0; the
\* balance-sheet value is never used when the income-statement value is valid.
C27_IncomeStatementSharesFirst ==
  psRan # "none" =>
    LET facts == FactsByYear
    IN  \A n \in 1..Len(psOut) :
          \A i \in 1..Len(facts) :
            facts[i].fy = psOut[n].fy =>
              IF ValidSharesCell(facts[i].is.SharesDiluted)
              THEN psOut[n].shares = facts[i].is.SharesDiluted
              ELSE /\ ValidSharesCell(facts[i].bs.SharesDiluted)
                   /\ psOut[n].shares = facts[i].bs.SharesDiluted


-----------------------------------------------------------------------------
(* The rounding functions of utils/format.ts.  A value handed to them is a  *)
(* number of 32nds, so that value * 10^decimals is exact in binary floating  *)
(* point and some values lie exactly halfway between two steps; a result of *)
(* rounding to d decimals is a number of steps of 10^-d.                    *)

RECURSIVE Pow10(_)
Pow10(d) == IF d = 0 THEN 1 ELSE 10 * Pow10(d - 1)

\* Math.round(p / q) for q > 0: floor(p / q + 0.5), a tie goes towards
\* +Infinity for negative arguments as for positive ones.
MathRound(p, q) == (2 * p + q) \div (2 * q)

\* roundN: Math.round(n * factor) / factor, in steps of 1 / factor.
roundN(v, decimals) ==
  LET n == toNum(v)
  IN  IF IsNull(n) THEN NULL
      ELSE LET factor == Pow10(decimals)
           IN  Num(MathRound(n.v * factor, 32))

\* round3: Math.round(n * 1000) / 1000, in thousandths.
round3(v) ==
  LET n == toNum(v)
  IN  IF IsNull(n) THEN NULL ELSE Num(MathRound(n.v * 1000, 32))

\* round4: Math.round(n * 10000) / 10000, in ten-thousandths.
round4(v) ==
  LET n == toNum(v)
  IN  IF IsNull(n) THEN NULL ELSE Num(MathRound(n.v * 10000, 32))

\* The values a caller hands over: null, the empty string, and the numbers
\* -MaxNumerator/32 .. MaxNumerator/32.
RoundInputs ==
  {NULL, Blank} \cup {Num(n) : n \in (0 - MaxNumerator)..MaxNumerator}

RoundInit ==
  /\ CagrIdle
  /\ LongIdle
  /\ CmIdle
  /\ PsIdle
  /\ RcIdle
  /\ ScIdle
  /\ rnValue \in RoundInputs
  /\ rnDecimals = 0
  /\ rnFn = "none"
  /\ rnOut = NULL

CallRound3 ==
  /\ rnFn = "none"
  /\ rnOut' = round3(rnValue)
  /\ rnDecimals' = 3
  /\ rnFn' = "round3"
  /\ UNCHANGED <<rnValue, cagrVars, longVars, cmVars, psVars, rcVars, scVars>>

CallRound4 ==
  /\ rnFn = "none"
  /\ rnOut' = round4(rnValue)
  /\ rnDecimals' = 4
  /\ rnFn' = "round4"
  /\ UNCHANGED <<rnValue, cagrVars, longVars, cmVars, psVars, rcVars, scVars>>

CallRoundN ==
  /\ rnFn = "none"
  /\ \E decimals \in 0..MaxDecimals :
       /\ rnOut' = roundN(rnValue, decimals)
       /\ rnDecimals' = decimals
  /\ rnFn' = "roundN"
  /\ UNCHANGED <<rnValue, cagrVars, longVars, cmVars, psVars, rcVars, scVars>>

RoundNext == CallRound3 \/ CallRound4 \/ CallRoundN

SpecRound == RoundInit /\ [][RoundNext]_vars

\* p / q rounded to the nearest integer, a tie going away from zero.
HalfAwayFromZero(p, q) ==
  IF p >= 0 THEN (2 * p + q) \div (2 * q)
  ELSE 0 - ((2 * (0 - p) + q) \div (2 * q))

\* C29: roundN, round3 and round4 return null for null, and otherwise the
\* value rounded to the given number of decimals with a tie going away from
\* zero, for negative values as for positive ones.
C29_RoundsHalfAwayFromZero ==
  rnFn # "none" =>
    /\ rnValue = NULL => rnOut = NULL
    /\ rnValue.t = "num" =>
         rnOut = Num(HalfAwayFromZero(rnValue.v * Pow10(rnDecimals), 32))


-----------------------------------------------------------------------------
(* The CAGR engine run on Per_Share rows that are not in the order of their *)
(* fiscal years.                                                            *)

OrderCells == {Plain, Num(-200)}

\* The row of the k-th fiscal year: its OpPS differs from year to year.
OrderRow(k, cell) ==
  [fy |-> 2000 + k, OpPS |-> Num(100 * k), EPS |-> cell, FCFPS |-> Plain]

\* The tables of n fiscal years in ascending order; the first or the last
\* year may hold an EPS cell that is not the plain one.
AscendingTables(n) ==
  {[k \in 1..n |-> OrderRow(k, IF k = p THEN cell ELSE Plain)] :
     p \in {1, n}, cell \in OrderCells}

Exchange(rows, i, j) ==
  [k \in 1..Len(rows) |->
     IF k = i THEN rows[j] ELSE IF k = j THEN rows[i] ELSE rows[k]]

\* A table of OrderYears rows in ascending order, or a table long enough for
\* the 10Y window in which two rows have changed places.
OrderInit ==
  /\ RcIdle
  /\ ScIdle
  /\ RnIdle
  /\ LongIdle
  /\ CmIdle
  /\ PsIdle
  /\ perShare \in AscendingTables(OrderYears)
        \cup {Exchange(t, i, j) : t \in AscendingTables(MIN_ROWS_10Y),
                                  i \in 1..MIN_ROWS_10Y, j \in 1..MIN_ROWS_10Y}
  /\ column = "OpPS"
  /\ ran = "none"
  /\ metrics = "none"

\* The user moves a row of the Per_Share sheet one place down.
MoveRow ==
  /\ ran = "none"
  /\ Len(perShare) <= OrderYears
  /\ \E i \in 1..(Len(perShare) - 1) : perShare' = Exchange(perShare, i, i + 1)
  /\ UNCHANGED <<column, ran, metrics, longVars, cmVars, psVars, rcVars, scVars, rnVars>>

OrderNext == MoveRow \/ ComputeCAGRs \/ ComputeCAGRsLegacy

SpecOrder == OrderInit /\ [][OrderNext]_vars

\* The rows in the order of their fiscal years: the k-th is the row that has
\* k - 1 rows of a smaller fiscal year.
AscendingRows(rows) ==
  [k \in 1..Len(rows) |->
     CHOOSE r \in Range(rows) :
       Cardinality({q \in Range(rows) : q.fy < r.fy}) = k - 1]

DistinctFiscalYears(rows) ==
  \A i, j \in 1..Len(rows) : i # j => rows[i].fy # rows[j].fy

OutOfOrder(rows) == \E i \in 1..(Len(rows) - 1) : rows[i].fy > rows[i + 1].fy

\* C30: when the fiscal years of the ticker are distinct, the record the
\* engine computes is the one it computes from the rows in ascending order
\* of fiscal year, whatever the order of the rows in the sheet.
C30_EngineIgnoresSheetOrder ==
  (ran # "none" /\ DistinctFiscalYears(perShare)) =>
    LET asc == AscendingRows(perShare)
    IN  /\ ran = "computeCAGRs" =>
             metrics = calculateTickerMetrics([i \in 1..Len(asc) |-> YearRecord(asc[i])])
        /\ ran = "computeCAGRs_" =>
             metrics = LegacyTickerMetrics([i \in 1..Len(asc) |-> LegacyRecord(asc[i])])

\* A run over rows whose last sheet row is not the latest fiscal year, with
\* a 5Y rate computed.
C30_Witness ==
  /\ ran # "none"
  /\ OutOfOrder(perShare)
  /\ perShare[Len(perShare)].fy # 2000 + Len(perShare)
  /\ metrics.OpPS.cagr5Y # NULL

=============================================================================
